---- MODULE Spec2Model ----
(***************************************************************************)
(* State-machine model of txingest-classifier: the State event router      *)
(* (state.rs), the Classification value store (classification.rs), the     *)
(* Threshold evaluator (threshold.rs) and the Group registry.              *)
(*                                                                         *)
(* u64 values are modelled by integers.  A value v in [0, 2^31) stands for *)
(* itself, a negative integer n stands for the u64 value 2^64 + n (the     *)
(* result of a wrapped subtraction), so that wrapping arithmetic is the    *)
(* integer arithmetic and only the unsigned comparison needs care (ULt).   *)
(***************************************************************************)
EXTENDS Integers, Sequences, FiniteSets, TLC

VARIABLES
    config,                             \* State.config (validated, fixed after start)
    overflow_checks,                    \* build profile: TRUE = overflow checks on (debug)
    panicked,                           \* the owner thread has panicked
    most_recent_timestamp,              \* State.most_recent_timestamp
    most_recent_timestamp_event_count,  \* State.most_recent_timestamp_event_count
    leader_status,                      \* State.leader_status : Option<bool>
    peers,                              \* State.peers : ip -> Peer
    stakes,                             \* State.stakes : ip -> u64
    current_tx,                         \* State.current_tx : signature -> Tx
    pubkey_groups,                      \* State.pubkey_groups : name -> (ip -> expiration)
    classification_groups,              \* State.classification_groups : name -> Group members
    recent_values,                      \* Classification.recent_values, per classification
    out,                                \* lines printed by the last operation
    fed,                                \* values passed to add_value by the last operation
    evaluated,                          \* calls of stop_after_exceeded made by the last operation
    reaped,                             \* peers removed by the last operation
    last_op,                            \* the last operation applied and its arguments
    run_len,                            \* history: length of the current run of calls with ts <= clock
    run_base,                           \* history: the effective timestamp when that run began
    last_reported,                      \* history: the timestamp reported to the last tracked call
    wall,                               \* the system clock read by now_millis(), in ms
    conn,                               \* per connection: "none", "open" (ingest thread running), "closed"
    next_seq,                           \* per connection: messages deserialized from it so far
    holding,                            \* per connection: the message deserialized and not yet sent
    channel,                            \* the crossbeam channel, oldest message first
    owner_pc,                           \* owner thread: "recv" (in recv_timeout) or "check"
    recv_start,                         \* the time at which the current recv_timeout began
    last_log_timestamp,                 \* main's last_log_timestamp
    applied,                            \* history: << connection, number >> of the messages applied
    ticks,                              \* history: calls of State::periodic made by the owner loop
    prev_tick_wall,                     \* history: the system clock at the last of them
    fee_log,                            \* history: the Fee events received for the Tx in the ledger
    earliest_submitter                  \* history: per signature, the ip of the earliest UserTx
                                        \* of the run and of the Tx now in the ledger

vars == << config, overflow_checks, panicked, most_recent_timestamp,
           most_recent_timestamp_event_count, leader_status, peers, stakes,
           current_tx, pubkey_groups, classification_groups, recent_values,
           out, fed, evaluated, reaped, last_op, run_len, run_base, last_reported,
           wall, conn, next_seq, holding, channel, owner_pc, recv_start,
           last_log_timestamp, applied, ticks, prev_tick_wall, fee_log,
           earliest_submitter >>

main_vars == << wall, conn, next_seq, holding, channel, owner_pc, recv_start,
                last_log_timestamp, applied, ticks, prev_tick_wall >>

(***************************************************************************)
(* Program constants                                                       *)
(***************************************************************************)
DEFAULT_USELESS_QUIC_CONNECTION_DURATION_MS == 2000
TX_RETENTION_DURATION_MS == 120000
PEER_RETENTION_DURATION_MS == 259200000
DEFAULT_GROUP_EXPIRATION_SECONDS == 86400
CLOCK_RUN_LIMIT == 100
RECV_TIMEOUT_MS == 100
TICK_PERIOD_MS == 1000

(***************************************************************************)
(* Bounds of the model                                                     *)
(***************************************************************************)
MaxSeriesLen == 2       \* longest per-IP value series explored
MaxTxSubmitted == 2     \* largest Peer.tx_submitted explored
MaxRun == 101           \* longest run of non-advancing clock calls explored
MaxMsgs == 2            \* messages deserialized from one connection
MaxFees == 2            \* Fee events received for the Tx in the ledger
WallSpan == 1200        \* ms of system time explored by the threads of main

(***************************************************************************)
(* Option<T>, partial maps, unsigned comparison                            *)
(***************************************************************************)
None == << >>
Some(x) == << x >>
IsSome(o) == o # << >>
UnwrapOr(o, d) == IF o = << >> THEN d ELSE o[1]

EmptyMap == [x \in {} |-> 0]
Put(m, k, v) == [x \in (DOMAIN m) \cup {k} |-> IF x = k THEN v ELSE m[x]]
Without(m, K) == [x \in (DOMAIN m) \ K |-> m[x]]

\* u64 `<` on the encoding described at the top of the module
ULt(x, y) == IF (x < 0) = (y < 0) THEN x < y ELSE y < 0
ULe(x, y) == ~ ULt(y, x)

\* u64 `a - b` overflows (a, b plain values)
SubOverflows(a, b) == a < b

(***************************************************************************)
(* Universe of event arguments                                             *)
(***************************************************************************)
\* a time from which on no retention subtraction underflows
Base == PEER_RETENTION_DURATION_MS + 40800000
Conns == {"c1", "c2"}
IPs == {"ipA", "ipB"}
IpOrder == << "ipA", "ipB" >>
Sigs == {"sigS", "sigT"}
ClsNames == << "failed_exceeded_quic_connections", "useless_quic_connections",
               "fee_lamports_submitted", "fee_microlamports_per_cu_limit",
               "fee_microlamports_per_cu_used" >>
ClsSet == {ClsNames[i] : i \in 1..Len(ClsNames)}

RECURSIVE SeqOfSet(_)
SeqOfSet(S) == IF S = {} THEN << >>
               ELSE LET x == CHOOSE y \in S : TRUE IN << x >> \o SeqOfSet(S \ {x})

RECURSIVE Perms(_)
\* every order in which a HashMap may iterate over the keys S
Perms(S) == IF S = {} THEN { << >> }
            ELSE UNION { { << x >> \o p : p \in Perms(S \ {x}) } : x \in S }

\* the keys of m in the canonical order of IpOrder
RECURSIVE FilterSeq(_, _)
FilterSeq(seq, S) == IF seq = << >> THEN << >>
                     ELSE IF Head(seq) \in S THEN << Head(seq) >> \o FilterSeq(Tail(seq), S)
                     ELSE FilterSeq(Tail(seq), S)
KeysInOrder(m) == FilterSeq(IpOrder, DOMAIN m)

(***************************************************************************)
(* Threshold::validate and Classification::validate                        *)
(***************************************************************************)
\* a Threshold as deserialized
Thr(gn, ges, lo, hi, mvc, op, ty, v, dur, cam) ==
    [ group_name |-> gn, group_expiration_seconds |-> ges, low_stake |-> lo,
      high_stake |-> hi, min_value_count |-> mvc, value_operation |-> op,
      threshold_type |-> ty, value |-> v, duration_ms |-> dur,
      continue_after_match |-> cam ]

\* a Classification as deserialized (max_duration_ms is #[serde(skip)], 0)
Cls(gn, ges, eva, ths) ==
    [ group_name |-> gn, group_expiration_seconds |-> ges,
      evaluate_all_thresholds |-> eva, thresholds |-> ths, max_duration_ms |-> 0 ]

\* Threshold::validate on a threshold that passes validation: fills the defaults
threshold_validate(t, classification_group_name, classification_group_expiration_seconds) ==
    [ t EXCEPT
        !.group_name = IF t.group_name = None THEN Some(classification_group_name) ELSE @,
        !.group_expiration_seconds =
            IF t.group_expiration_seconds = None
            THEN Some(classification_group_expiration_seconds) ELSE @ ]

\* the conditions under which Threshold::validate returns Ok
threshold_valid(t, classification_group_name) ==
    /\ (IsSome(t.low_stake) /\ IsSome(t.high_stake)) => t.high_stake[1] >= t.low_stake[1]
    /\ t.duration_ms # 0
    /\ UnwrapOr(t.group_name, classification_group_name) # ""

RECURSIVE MaxDuration(_)
MaxDuration(ths) == IF ths = << >> THEN 0
                    ELSE LET m == MaxDuration(Tail(ths))
                         IN IF Head(ths).duration_ms > m THEN Head(ths).duration_ms ELSE m

\* Classification::validate on a classification that passes validation
classification_validate(c, name) ==
    LET ths == [ i \in 1..Len(c.thresholds) |->
                   threshold_validate(c.thresholds[i],
                       UnwrapOr(c.group_name, name),
                       UnwrapOr(c.group_expiration_seconds, DEFAULT_GROUP_EXPIRATION_SECONDS) * 1000) ]
    IN [ c EXCEPT !.thresholds = ths, !.max_duration_ms = MaxDuration(ths) ]

classification_valid(c, name) ==
    /\ c.thresholds # << >>
    /\ \A i \in 1..Len(c.thresholds) :
          threshold_valid(c.thresholds[i], UnwrapOr(c.group_name, name))

(***************************************************************************)
(* The State as one value, so that handlers compose (exceeded = failed;    *)
(* started).  Cur is the current State, Install(s) makes s the next one.   *)
(***************************************************************************)
Cur == [ most_recent_timestamp |-> most_recent_timestamp,
         most_recent_timestamp_event_count |-> most_recent_timestamp_event_count,
         leader_status |-> leader_status,
         peers |-> peers,
         stakes |-> stakes,
         current_tx |-> current_tx,
         pubkey_groups |-> pubkey_groups,
         classification_groups |-> classification_groups,
         recent_values |-> recent_values,
         out |-> << >>,
         fed |-> << >>,
         evaluated |-> << >>,
         reaped |-> {},
         panicked |-> FALSE ]

Install(s) ==
    /\ most_recent_timestamp' = s.most_recent_timestamp
    /\ most_recent_timestamp_event_count' = s.most_recent_timestamp_event_count
    /\ leader_status' = s.leader_status
    /\ peers' = s.peers
    /\ stakes' = s.stakes
    /\ current_tx' = s.current_tx
    /\ pubkey_groups' = s.pubkey_groups
    /\ classification_groups' = s.classification_groups
    /\ recent_values' = s.recent_values
    /\ out' = s.out
    /\ fed' = s.fed
    /\ evaluated' = s.evaluated
    /\ reaped' = s.reaped
    /\ panicked' = s.panicked

(***************************************************************************)
(* State::get_timestamp                                                    *)
(***************************************************************************)
\* a mutation of get_timestamp: the reported timestamp is always taken
get_timestamp_unguarded(s, timestamp) ==
    [ s EXCEPT !.most_recent_timestamp = timestamp,
               !.most_recent_timestamp_event_count = 0 ]

get_timestamp(s, timestamp) ==
    IF timestamp <= s.most_recent_timestamp
    THEN IF s.most_recent_timestamp_event_count = CLOCK_RUN_LIMIT
         THEN [ s EXCEPT !.most_recent_timestamp = @ + 1,
                         !.most_recent_timestamp_event_count = 0 ]
         ELSE s
    ELSE [ s EXCEPT !.most_recent_timestamp = timestamp,
                    !.most_recent_timestamp_event_count = 0 ]

(***************************************************************************)
(* Classification::add_value                                               *)
(***************************************************************************)
add_value(rv, ip_addr, timestamp, value) ==
    Put(rv, ip_addr,
        Append(IF ip_addr \in DOMAIN rv THEN rv[ip_addr] ELSE << >>,
               [ timestamp |-> timestamp, value |-> value ]))

\* `if let Some(c) = &mut self.config.<name> { c.add_value(..) }`
Feed(s, name, ip_addr, timestamp, value, sig, index) ==
    IF config.cls[name] = None THEN s
    ELSE [ s EXCEPT
             !.recent_values[name] = add_value(@, ip_addr, timestamp, value),
             !.fed = Append(@, [ cls |-> name, ip |-> ip_addr, timestamp |-> timestamp,
                                 value |-> value, sig |-> sig, index |-> index ]) ]

(***************************************************************************)
(* Event handlers of State                                                 *)
(***************************************************************************)
failed(s, timestamp, peer_addr) ==
    LET s1 == get_timestamp(s, timestamp)
    IN Feed(s1, "failed_exceeded_quic_connections", peer_addr,
            s1.most_recent_timestamp, 1, "", 0)

\* a mutation of the pubkey-group insertion: the new expiration always replaces the stored one
pubkey_group_add_overwrite(s, group_name, peer_addr, peer_pubkey, new_expiration) ==
    LET g == IF group_name \in DOMAIN s.pubkey_groups
             THEN s.pubkey_groups[group_name] ELSE EmptyMap
    IN [ s EXCEPT !.pubkey_groups = Put(@, group_name, Put(g, peer_addr, new_expiration)),
                  !.out = Append(@, [ op |-> IF peer_addr \in DOMAIN g THEN "Update" ELSE "Add",
                                      ip |-> peer_addr, group |-> group_name,
                                      expiration |-> new_expiration, src |-> "pubkey" ]) ]

\* the entry(..).and_modify(..).or_insert_with(..) of State::started on one pubkey group
pubkey_group_add(s, group_name, peer_addr, peer_pubkey, new_expiration) ==
    LET g == IF group_name \in DOMAIN s.pubkey_groups
             THEN s.pubkey_groups[group_name] ELSE EmptyMap
        line(op) == [ op |-> op, ip |-> peer_addr, group |-> group_name,
                      expiration |-> new_expiration, src |-> "pubkey" ]
    IN IF peer_addr \in DOMAIN g
       THEN IF g[peer_addr] < new_expiration
            THEN [ s EXCEPT !.pubkey_groups = Put(@, group_name, Put(g, peer_addr, new_expiration)),
                            !.out = Append(@, line("Update")) ]
            ELSE [ s EXCEPT !.pubkey_groups = Put(@, group_name, g) ]
       ELSE [ s EXCEPT !.pubkey_groups = Put(@, group_name, Put(g, peer_addr, new_expiration)),
                       !.out = Append(@, line("Add")) ]

\* a mutation of the pubkey-group expiration: the seconds are not converted
pubkey_expiration_unconverted(timestamp, group_expiration) == timestamp + group_expiration

\* line 240: `timestamp + (group_expiration * 1000)`
pubkey_expiration(timestamp, group_expiration) == timestamp + (group_expiration * 1000)

\* a mutation of State::started: the stake is recorded only for a peer already known
started_stake_of_known(s, timestamp, peer_addr, peer_pubkey, stake) ==
    LET s1 == get_timestamp(s, timestamp)
        ts == s1.most_recent_timestamp
        peer == IF peer_addr \in DOMAIN s1.peers
                THEN [ s1.peers[peer_addr] EXCEPT !.most_recent_timestamp = ts ]
                ELSE [ first_timestamp |-> ts, most_recent_timestamp |-> ts, tx_submitted |-> 0 ]
    IN [ s1 EXCEPT !.peers = Put(@, peer_addr, peer),
                   !.stakes = IF peer_addr \in DOMAIN s1.peers
                              THEN Put(@, peer_addr, stake) ELSE @ ]

started(s, timestamp, peer_addr, peer_pubkey, stake) ==
    LET s1 == get_timestamp(s, timestamp)
        ts == s1.most_recent_timestamp
        peer == IF peer_addr \in DOMAIN s1.peers
                THEN [ s1.peers[peer_addr] EXCEPT !.most_recent_timestamp = ts ]
                ELSE [ first_timestamp |-> ts, most_recent_timestamp |-> ts, tx_submitted |-> 0 ]
        s2 == [ s1 EXCEPT !.peers = Put(@, peer_addr, peer),
                          !.stakes = Put(@, peer_addr, stake) ]
    IN IF IsSome(peer_pubkey) /\ peer_pubkey[1] \in DOMAIN config.pubkey_classifications
       THEN LET pc == config.pubkey_classifications[peer_pubkey[1]]
            IN pubkey_group_add(s2, pc.group_name, peer_addr, peer_pubkey[1],
                                pubkey_expiration(ts, pc.group_expiration))
       ELSE s2

\* a mutation of State::exceeded: the failure is not recorded
exceeded_started_only(s, timestamp, peer_addr, peer_pubkey, stake) ==
    started(s, timestamp, peer_addr, peer_pubkey, stake)

\* lines 202-215: failed, then started
exceeded(s, timestamp, peer_addr, peer_pubkey, stake) ==
    started(failed(s, timestamp, peer_addr), timestamp, peer_addr, peer_pubkey, stake)

\* a mutation of the useless test: tx_submitted is not looked at
is_useless_whatever_submitted(peer, timestamp) ==
    (timestamp - peer.first_timestamp) >=
        UnwrapOr(config.useless_quic_connection_duration_ms,
                 DEFAULT_USELESS_QUIC_CONNECTION_DURATION_MS)

\* lines 276-280: the test of State::finished
is_useless(peer, timestamp) ==
    /\ peer.tx_submitted = 0
    /\ (timestamp - peer.first_timestamp) >=
          UnwrapOr(config.useless_quic_connection_duration_ms,
                   DEFAULT_USELESS_QUIC_CONNECTION_DURATION_MS)

finished(s, timestamp, peer_addr) ==
    LET s1 == get_timestamp(s, timestamp)
        ts == s1.most_recent_timestamp
    IN IF peer_addr \in DOMAIN s1.peers
       THEN LET s2 == [ s1 EXCEPT !.peers[peer_addr].most_recent_timestamp = ts ]
                peer == s2.peers[peer_addr]
            IN IF is_useless(peer, ts)
               THEN Feed(s2, "useless_quic_connections", peer_addr, ts, 1, "", 0)
               ELSE s2
       ELSE s1

\* a mutation of State::votetx: the submission is not counted
votetx_not_counted(s, timestamp, peer_addr) ==
    LET s1 == get_timestamp(s, timestamp)
    IN IF peer_addr \in DOMAIN s1.peers
       THEN [ s1 EXCEPT !.peers[peer_addr].most_recent_timestamp = s1.most_recent_timestamp ]
       ELSE s1

\* lines 288-301
votetx(s, timestamp, peer_addr) ==
    LET s1 == get_timestamp(s, timestamp)
    IN IF peer_addr \in DOMAIN s1.peers
       THEN [ s1 EXCEPT !.peers[peer_addr].most_recent_timestamp = s1.most_recent_timestamp,
                        !.peers[peer_addr].tx_submitted = @ + 1 ]
       ELSE s1

\* Tx::new
tx_new(timestamp, first_submitter) ==
    [ submitters |-> {first_submitter},
      submissions |-> << [ timestamp |-> timestamp, submitter |-> first_submitter ] >>,
      fee |-> None ]

\* a mutation of Tx::submitted: a re-submission is recorded like a first submission
tx_submitted_again(tx, timestamp, submitter) ==
    [ tx EXCEPT !.submitters = @ \cup {submitter},
                !.submissions = Append(@, [ timestamp |-> timestamp,
                                            submitter |-> submitter ]) ]

\* Tx::submitted
tx_submitted(tx, timestamp, submitter) ==
    IF submitter \in tx.submitters THEN tx
    ELSE [ tx EXCEPT !.submitters = @ \cup {submitter},
                     !.submissions = Append(@, [ timestamp |-> timestamp,
                                                 submitter |-> submitter ]) ]

\* a mutation of State::usertx: a re-submission is put in front of the submissions
usertx_newest_first(s, timestamp, peer_addr, signature) ==
    LET s1 == get_timestamp(s, timestamp)
        ts == s1.most_recent_timestamp
        s2 == IF peer_addr \in DOMAIN s1.peers
              THEN [ s1 EXCEPT !.peers[peer_addr].most_recent_timestamp = ts,
                               !.peers[peer_addr].tx_submitted = @ + 1 ]
              ELSE s1
    IN [ s2 EXCEPT !.current_tx =
           IF signature \in DOMAIN @
           THEN Put(@, signature,
                    IF peer_addr \in @[signature].submitters THEN @[signature]
                    ELSE [ @[signature] EXCEPT
                             !.submitters = @ \cup {peer_addr},
                             !.submissions = << [ timestamp |-> ts,
                                                  submitter |-> peer_addr ] >> \o @ ])
           ELSE Put(@, signature, tx_new(ts, peer_addr)) ]

\* lines 303-326
usertx(s, timestamp, peer_addr, signature) ==
    LET s1 == get_timestamp(s, timestamp)
        ts == s1.most_recent_timestamp
        s2 == IF peer_addr \in DOMAIN s1.peers
              THEN [ s1 EXCEPT !.peers[peer_addr].most_recent_timestamp = ts,
                               !.peers[peer_addr].tx_submitted = @ + 1 ]
              ELSE s1
    IN [ s2 EXCEPT !.current_tx =
           IF signature \in DOMAIN @
           THEN Put(@, signature, tx_submitted(@[signature], ts, peer_addr))
           ELSE Put(@, signature, tx_new(ts, peer_addr)) ]

forwarded(s, timestamp, signature) == s

badfee(s, timestamp, signature) == s

\* a mutation of State::fee: a fee already set is kept
fee_first_wins(s, timestamp, signature, cu_limit, cu_used, total) ==
    LET s1 == get_timestamp(s, timestamp)
    IN IF signature \in DOMAIN s1.current_tx /\ s1.current_tx[signature].fee = None
       THEN [ s1 EXCEPT !.current_tx[signature].fee =
                Some([ total |-> total, cu_limit |-> cu_limit, cu_used |-> cu_used ]) ]
       ELSE s1

fee(s, timestamp, signature, cu_limit, cu_used, total) ==
    LET s1 == get_timestamp(s, timestamp)
    IN IF signature \in DOMAIN s1.current_tx
       THEN [ s1 EXCEPT !.current_tx[signature].fee =
                Some([ total |-> total, cu_limit |-> cu_limit, cu_used |-> cu_used ]) ]
       ELSE s1

begin_leader(s, timestamp) ==
    IF ~ IsSome(config.outside_leader_slots) \/ ~ UnwrapOr(s.leader_status, FALSE)
    THEN [ s EXCEPT !.leader_status = Some(TRUE),
                    !.out = Append(@, [ op |-> "LEADER CLASSIFICATION", ip |-> "", group |-> "",
                                        expiration |-> 0, src |-> "leader" ]) ]
    ELSE s

end_leader(s, timestamp) ==
    IF IsSome(config.outside_leader_slots)
    THEN IF UnwrapOr(s.leader_status, TRUE)
         THEN [ s EXCEPT !.leader_status = Some(FALSE),
                         !.out = Append(@, [ op |-> "NOT LEADER CLASSIFICATION", ip |-> "",
                                             group |-> "", expiration |-> 0, src |-> "leader" ]) ]
         ELSE s
    ELSE begin_leader(s, timestamp)

\* a mutation of will_be_leader: exactly leader_slots slots ahead still counts as leader
will_be_leader_strict(s, timestamp, slots) ==
    IF IsSome(config.outside_leader_slots) /\ slots > config.outside_leader_slots[1].leader_slots
    THEN end_leader(s, timestamp)
    ELSE begin_leader(s, timestamp)

will_be_leader(s, timestamp, slots) ==
    IF IsSome(config.outside_leader_slots) /\ slots >= config.outside_leader_slots[1].leader_slots
    THEN end_leader(s, timestamp)
    ELSE begin_leader(s, timestamp)

(***************************************************************************)
(* Group: members : ip -> expiry.  `g` is [members, out].                  *)
(***************************************************************************)
group_line(op, ip_addr, name, expiration) ==
    [ op |-> op, ip |-> ip_addr, group |-> name, expiration |-> expiration, src |-> "group" ]

\* a mutation of Group::add: the new expiry always replaces the stored one
group_add_overwrite(members, name, ip_addr, expiration) ==
    [ members |-> Put(members, ip_addr, expiration),
      out |-> << group_line(IF ip_addr \in DOMAIN members THEN "Update" ELSE "Add",
                            ip_addr, name, expiration) >> ]

\* Group::add(ip, expiry)
group_add(members, name, ip_addr, expiration) ==
    IF ip_addr \in DOMAIN members
    THEN IF members[ip_addr] < expiration
         THEN [ members |-> Put(members, ip_addr, expiration),
                out |-> << group_line("Update", ip_addr, name, expiration) >> ]
         ELSE [ members |-> members, out |-> << >> ]
    ELSE [ members |-> Put(members, ip_addr, expiration),
           out |-> << group_line("Add", ip_addr, name, expiration) >> ]

\* Group::periodic(now)
group_periodic(members, name, now) ==
    LET gone == { ip \in DOMAIN members : members[ip] < now }
    IN [ members |-> Without(members, gone),
         out |-> [ i \in 1..Len(FilterSeq(IpOrder, gone)) |->
                     group_line("Remove", FilterSeq(IpOrder, gone)[i], name, 0) ] ]

(***************************************************************************)
(* Threshold::stop_after_exceeded                                          *)
(***************************************************************************)
stake_of(stks, ip_addr) == IF ip_addr \in DOMAIN stks THEN stks[ip_addr] ELSE 0

\* a mutation of the stake gate: high_stake is only looked at when low_stake is given
stake_gate_passes_low_only(t, stks, ip_addr) ==
    IF IsSome(t.low_stake)
    THEN LET stake == stake_of(stks, ip_addr)
         IN /\ ~ (stake < t.low_stake[1])
            /\ ~ (IsSome(t.high_stake) /\ stake > t.high_stake[1])
    ELSE TRUE

\* the stake gate: FALSE where the code returns false early
stake_gate_passes(t, stks, ip_addr) ==
    IF IsSome(t.low_stake)
    THEN LET stake == stake_of(stks, ip_addr)
         IN /\ ~ (stake < t.low_stake[1])
            /\ ~ (IsSome(t.high_stake) /\ stake > t.high_stake[1])
    ELSE IF IsSome(t.high_stake)
         THEN ~ (stake_of(stks, ip_addr) > t.high_stake[1])
         ELSE TRUE

RECURSIVE WindowSum(_, _)
WindowSum(series, use_timestamp) ==
    IF series = << >> THEN 0
    ELSE (IF ULt(Head(series).timestamp, use_timestamp) THEN 0 ELSE Head(series).value)
         + WindowSum(Tail(series), use_timestamp)

RECURSIVE WindowCount(_, _)
WindowCount(series, use_timestamp) ==
    IF series = << >> THEN 0
    ELSE (IF ULt(Head(series).timestamp, use_timestamp) THEN 0 ELSE 1)
         + WindowCount(Tail(series), use_timestamp)

\* a mutation of the comparison: the two inclusive comparators are taken as strict
compare_strict(threshold_type, value_sum, value) ==
    CASE threshold_type = "greater_than" -> value_sum > value
      [] threshold_type = "greater_than_or_equal_to" -> value_sum > value
      [] threshold_type = "less_than" -> value_sum < value
      [] threshold_type = "less_than_or_equal_to" -> value_sum < value

compare(threshold_type, value_sum, value) ==
    CASE threshold_type = "greater_than" -> value_sum > value
      [] threshold_type = "greater_than_or_equal_to" -> value_sum >= value
      [] threshold_type = "less_than" -> value_sum < value
      [] threshold_type = "less_than_or_equal_to" -> value_sum <= value

\* the value compared and whether the threshold is met, past the stake gate
is_in_group(t, now, series) ==
    LET use_timestamp == now - t.duration_ms
        value_count == WindowCount(series, use_timestamp)
        sum == WindowSum(series, use_timestamp)
        value_sum == IF t.value_operation = "average" /\ value_count > 0
                     THEN sum \div value_count ELSE sum
    IN /\ ~ (IsSome(t.min_value_count) /\ value_count < t.min_value_count[1])
       /\ compare(t.threshold_type, value_sum, t.value)

\* the expiration handed to Group::add
threshold_expiration(t, now) == now + t.group_expiration_seconds[1]

\* result: [stop, groups, out, panicked, matched]
stop_after_exceeded(t, stks, now, ip_addr, series, groups) ==
    IF ~ stake_gate_passes(t, stks, ip_addr)
    THEN [ stop |-> FALSE, groups |-> groups, out |-> << >>, panicked |-> FALSE, matched |-> FALSE ]
    ELSE IF overflow_checks /\ SubOverflows(now, t.duration_ms)
    THEN [ stop |-> FALSE, groups |-> groups, out |-> << >>, panicked |-> TRUE, matched |-> FALSE ]
    ELSE IF is_in_group(t, now, series)
    THEN LET group_name == t.group_name[1]
             members == IF group_name \in DOMAIN groups THEN groups[group_name] ELSE EmptyMap
             g == group_add(members, group_name, ip_addr, threshold_expiration(t, now))
         IN [ stop |-> ~ UnwrapOr(t.continue_after_match, FALSE),
              groups |-> Put(groups, group_name, g.members),
              out |-> g.out, panicked |-> FALSE, matched |-> TRUE ]
    ELSE [ stop |-> FALSE, groups |-> groups, out |-> << >>, panicked |-> FALSE, matched |-> FALSE ]

(***************************************************************************)
(* Classification::periodic                                                *)
(***************************************************************************)
RECURSIVE pop_old(_, _)
\* the pop_front loop on one series
pop_old(series, retain_timestamp) ==
    IF series # << >> /\ ULt(Head(series).timestamp, retain_timestamp)
    THEN pop_old(Tail(series), retain_timestamp)
    ELSE series

\* lines 86-104: the series after the sweep, empty ones dropped
sweep(rv, retain_timestamp) ==
    LET popped == [ ip \in DOMAIN rv |-> pop_old(rv[ip], retain_timestamp) ]
    IN Without(popped, { ip \in DOMAIN popped : popped[ip] = << >> })

\* a mutation of the break test: evaluate_all_thresholds is not looked at
breaks_after_always(c, stop) == stop

\* lines 109-113: the break test after one threshold returned `stop`
breaks_after(c, stop) == stop /\ ~ UnwrapOr(c.evaluate_all_thresholds, FALSE)

RECURSIVE eval_thresholds(_, _, _, _, _, _)
\* the inner loop over thresholds i.. for one ip; acc is [groups, out, panicked, evaluated]
eval_thresholds(c, i, acc, stks, now, ip_series) ==
    IF i > Len(c.thresholds) \/ acc.panicked THEN acc
    ELSE LET r == stop_after_exceeded(c.thresholds[i], stks, now, ip_series[1],
                                      ip_series[2], acc.groups)
             acc2 == [ groups |-> r.groups, out |-> acc.out \o r.out, panicked |-> r.panicked,
                       evaluated |-> Append(acc.evaluated,
                                       [ ip |-> ip_series[1], index |-> i,
                                         threshold |-> c.thresholds[i],
                                         evaluate_all |-> UnwrapOr(c.evaluate_all_thresholds, FALSE),
                                         series |-> ip_series[2], now |-> now,
                                         stake |-> stake_of(stks, ip_series[1]),
                                         matched |-> r.matched, stop |-> r.stop ]) ]
         IN IF breaks_after(c, r.stop)
            THEN acc2
            ELSE eval_thresholds(c, i + 1, acc2, stks, now, ip_series)

RECURSIVE eval_ips(_, _, _, _, _, _)
eval_ips(c, ips, acc, stks, now, rv) ==
    IF ips = << >> \/ acc.panicked THEN acc
    ELSE eval_ips(c, Tail(ips),
                  eval_thresholds(c, 1, acc, stks, now, << Head(ips), rv[Head(ips)] >>),
                  stks, now, rv)

\* `if let Some(c) = &mut self.config.<name> { c.periodic(&self.stakes, &mut groups, now) }`
classification_periodic(s, name, now) ==
    IF config.cls[name] = None \/ s.panicked THEN s
    ELSE LET c == config.cls[name][1]
         IN IF overflow_checks /\ SubOverflows(now, c.max_duration_ms)
            THEN [ s EXCEPT !.panicked = TRUE ]
            ELSE LET rv == sweep(s.recent_values[name], now - c.max_duration_ms)
                     acc == eval_ips(c, KeysInOrder(rv),
                                [ groups |-> s.classification_groups, out |-> s.out,
                                  panicked |-> FALSE, evaluated |-> s.evaluated ],
                                s.stakes, now, rv)
                 IN [ s EXCEPT !.recent_values[name] = rv,
                               !.classification_groups = acc.groups,
                               !.out = acc.out,
                               !.evaluated = acc.evaluated,
                               !.panicked = acc.panicked ]

(***************************************************************************)
(* State::periodic                                                         *)
(***************************************************************************)
zero_fee == [ total |-> 0, cu_limit |-> 1, cu_used |-> 1 ]

\* a mutation of the fee choice: every submission is credited the landed fee
submission_fee_all(tx, i) == UnwrapOr(tx.fee, zero_fee)

\* a mutation of the fee choice: the last submission is credited the landed fee
submission_fee_last(tx, i) ==
    IF i = Len(tx.submissions) THEN UnwrapOr(tx.fee, zero_fee) ELSE zero_fee

\* line 490: the fee attributed to submission i (1-based here, 0-based in the code)
submission_fee(tx, i) == IF i = 1 THEN UnwrapOr(tx.fee, zero_fee) ELSE zero_fee

\* a mutation of the per-CU value: the fee is not scaled by 1000
microlamports_per_cu_unscaled(total, cu) == total \div cu

\* lines 497 and 504: (fee.total * 1000) / cu
microlamports_per_cu(total, cu) == (total * 1000) \div cu

\* lines 487-507 for one submission
emit_submission(s, sig, tx, i) ==
    LET submission == tx.submissions[i]
        f == submission_fee(tx, i)
        s1 == Feed(s, "fee_lamports_submitted", submission.submitter,
                   submission.timestamp, f.total, sig, i)
    IN IF IsSome(config.cls["fee_microlamports_per_cu_limit"]) /\ f.cu_limit = 0
       THEN [ s1 EXCEPT !.panicked = TRUE ]
       ELSE LET s2 == IF IsSome(config.cls["fee_microlamports_per_cu_limit"])
                      THEN Feed(s1, "fee_microlamports_per_cu_limit", submission.submitter,
                                submission.timestamp, microlamports_per_cu(f.total, f.cu_limit), sig, i)
                      ELSE s1
            IN IF IsSome(config.cls["fee_microlamports_per_cu_used"]) /\ f.cu_used = 0
               THEN [ s2 EXCEPT !.panicked = TRUE ]
               ELSE IF IsSome(config.cls["fee_microlamports_per_cu_used"])
                    THEN Feed(s2, "fee_microlamports_per_cu_used", submission.submitter,
                              submission.timestamp, microlamports_per_cu(f.total, f.cu_used), sig, i)
                    ELSE s2

RECURSIVE emit_tx(_, _, _, _)
\* the loop `for i in 0..tx.submissions.len()` from submission i on
emit_tx(s, sig, tx, i) ==
    IF i > Len(tx.submissions) \/ s.panicked THEN s
    ELSE emit_tx(emit_submission(s, sig, tx, i), sig, tx, i + 1)

\* a mutation of the eviction test: the newest submission decides
tx_is_old_last(tx, retain_timestamp) ==
    ULt(tx.submissions[Len(tx.submissions)].timestamp, retain_timestamp)

\* line 485
tx_is_old(tx, retain_timestamp) == ULt(tx.submissions[1].timestamp, retain_timestamp)

RECURSIVE drain(_, _)
\* current_tx.retain visiting the old Tx in `order` (the others are kept untouched)
drain(s, order) ==
    IF order = << >> \/ s.panicked THEN s
    ELSE LET sig == Head(order)
             s1 == emit_tx(s, sig, s.current_tx[sig], 1)
         IN drain([ s1 EXCEPT !.current_tx = Without(@, {sig}) ], Tail(order))

\* a mutation of the retain: every Tx is removed at every tick
old_tx_all(s, now) == DOMAIN s.current_tx

\* the Tx that the retain of this tick removes
old_tx(s, now) ==
    { sig \in DOMAIN s.current_tx : tx_is_old(s.current_tx[sig], now - TX_RETENTION_DURATION_MS) }

\* lines 483-514
drain_ledger(s, now, order) ==
    IF s.panicked THEN s
    ELSE IF overflow_checks /\ SubOverflows(now, TX_RETENTION_DURATION_MS)
    THEN [ s EXCEPT !.panicked = TRUE ]
    ELSE drain(s, order)

\* a mutation of the pubkey-group sweep: a member expiring exactly now is removed too
pubkey_member_expired_le(expiration, now) == ~ (expiration > now)

\* line 539: the member is dropped
pubkey_member_expired(expiration, now) == ~ (expiration >= now)

RECURSIVE pubkey_groups_periodic(_, _, _)
\* lines 537-547, over the group names in `names`
pubkey_groups_periodic(s, names, now) ==
    IF names = << >> \/ s.panicked THEN s
    ELSE LET name == Head(names)
             g == s.pubkey_groups[name]
             gone == FilterSeq(IpOrder, { ip \in DOMAIN g : pubkey_member_expired(g[ip], now) })
             lines == [ i \in 1..Len(gone) |->
                          [ op |-> "Remove", ip |-> gone[i], group |-> name,
                            expiration |-> 0, src |-> "pubkey" ] ]
         IN pubkey_groups_periodic(
                [ s EXCEPT !.pubkey_groups[name] = Without(g, { gone[i] : i \in 1..Len(gone) }),
                           !.out = @ \o lines ],
                Tail(names), now)

RECURSIVE classification_groups_periodic(_, _, _)
\* lines 549-551
classification_groups_periodic(s, names, now) ==
    IF names = << >> \/ s.panicked THEN s
    ELSE LET name == Head(names)
             g == group_periodic(s.classification_groups[name], name, now)
         IN classification_groups_periodic(
                [ s EXCEPT !.classification_groups[name] = g.members, !.out = @ \o g.out ],
                Tail(names), now)

\* a mutation of the peer sweep: the stake entry is left behind
reap_peers_keep_stakes(s, now) ==
    IF s.panicked THEN s
    ELSE IF overflow_checks /\ SubOverflows(now, PEER_RETENTION_DURATION_MS)
    THEN [ s EXCEPT !.panicked = TRUE ]
    ELSE LET gone == { ip \in DOMAIN s.peers :
                         ULt(s.peers[ip].most_recent_timestamp, now - PEER_RETENTION_DURATION_MS) }
         IN [ s EXCEPT !.peers = Without(@, gone), !.reaped = gone ]

\* lines 553-563
reap_peers(s, now) ==
    IF s.panicked THEN s
    ELSE IF overflow_checks /\ SubOverflows(now, PEER_RETENTION_DURATION_MS)
    THEN [ s EXCEPT !.panicked = TRUE ]
    ELSE LET gone == { ip \in DOMAIN s.peers :
                         ULt(s.peers[ip].most_recent_timestamp, now - PEER_RETENTION_DURATION_MS) }
         IN [ s EXCEPT !.peers = Without(@, gone), !.stakes = Without(@, gone), !.reaped = gone ]

RECURSIVE classifications_periodic(_, _, _)
\* lines 516-535: the five classifications in the order of the code
classifications_periodic(s, names, now) ==
    IF names = << >> THEN s
    ELSE classifications_periodic(classification_periodic(s, Head(names), now), Tail(names), now)

\* a mutation of the tick: an unknown leader status is left unknown
tick_leader_status_kept(s, now) == s

\* lines 421-425: `if self.leader_status.is_none() { self.end_leader(now); }`
tick_leader_status(s, now) == IF s.leader_status = None THEN end_leader(s, now) ELSE s

\* State::periodic; `order` is the order in which retain visits the old Tx
periodic(s, now_in, order) ==
    LET s1 == get_timestamp(s, now_in)
        now == s1.most_recent_timestamp
        s2 == tick_leader_status(s1, now)
        s3 == drain_ledger(s2, now, order)
        s4 == classifications_periodic(s3, ClsNames, now)
        s5 == pubkey_groups_periodic(s4, SeqOfSet(DOMAIN s4.pubkey_groups), now)
        s6 == classification_groups_periodic(s5, SeqOfSet(DOMAIN s5.classification_groups), now)
    IN reap_peers(s6, now)

(***************************************************************************)
(* State::new and the configurations explored                              *)
(***************************************************************************)
\* State::new lines 130-149: known_pubkeys -> pubkey_classifications
pubkey_classifications_of(known_pubkeys) ==
    [ pk \in { known_pubkeys[i].pubkey : i \in 1..Len(known_pubkeys) } |->
        LET c == known_pubkeys[CHOOSE i \in 1..Len(known_pubkeys) :
                                 /\ known_pubkeys[i].pubkey = pk
                                 /\ \A j \in (i+1)..Len(known_pubkeys) : known_pubkeys[j].pubkey # pk]
        IN [ group_name |-> UnwrapOr(c.group_name, "known_pubkeys"),
             group_expiration |-> UnwrapOr(c.group_expiration_seconds,
                                           DEFAULT_GROUP_EXPIRATION_SECONDS) ] ]

\* the Config after load: every configured Classification validated under its key
MakeConfig(cls, useless_ms, outside_leader_slots, known_pubkeys) ==
    [ cls |-> [ name \in ClsSet |->
                  IF name \in DOMAIN cls THEN Some(classification_validate(cls[name], name))
                  ELSE None ],
      raw |-> cls,
      useless_quic_connection_duration_ms |-> useless_ms,
      outside_leader_slots |-> outside_leader_slots,
      pubkey_classifications |-> pubkey_classifications_of(known_pubkeys) ]

\* State::new, lines 151-163
InitState(cfg) ==
    /\ config = cfg
    /\ overflow_checks \in BOOLEAN
    /\ panicked = FALSE
    /\ most_recent_timestamp = 0
    /\ most_recent_timestamp_event_count = 0
    /\ leader_status = None
    /\ peers = EmptyMap
    /\ stakes = EmptyMap
    /\ current_tx = EmptyMap
    /\ pubkey_groups = EmptyMap
    /\ classification_groups = EmptyMap
    /\ recent_values = [ name \in ClsSet |-> EmptyMap ]
    /\ out = << >>
    /\ fed = << >>
    /\ evaluated = << >>
    /\ reaped = {}
    /\ last_op = "new"
    /\ run_len = 0
    /\ run_base = 0
    /\ last_reported = 0
    /\ wall = Base
    /\ conn = [ c \in Conns |-> "none" ]
    /\ next_seq = [ c \in Conns |-> 0 ]
    /\ holding = [ c \in Conns |-> None ]
    /\ channel = << >>
    /\ owner_pc = "recv"
    /\ recv_start = Base
    /\ last_log_timestamp = 0
    /\ applied = << >>
    /\ ticks = 0
    /\ prev_tick_wall = 0
    /\ fee_log = << >>
    /\ earliest_submitter = EmptyMap

(***************************************************************************)
(* Actions: one per message of the owner loop, and the tick                *)
(***************************************************************************)
Bounded(s) ==
    /\ \A name \in ClsSet : \A ip \in DOMAIN s.recent_values[name] :
          Len(s.recent_values[name][ip]) <= MaxSeriesLen
    /\ \A ip \in DOMAIN s.peers : s.peers[ip].tx_submitted <= MaxTxSubmitted

\* the State becomes s by the operation op
Apply(s, op) ==
    /\ ~ panicked
    /\ Bounded(s)
    /\ Install(s)
    /\ last_op' = op
    /\ UNCHANGED << config, overflow_checks >>

\* an operation applied to the State directly, outside the threads of main
Step(s, op) == Apply(s, op) /\ UNCHANGED main_vars /\ UNCHANGED << fee_log, earliest_submitter >>

NoRun == UNCHANGED << run_len, run_base, last_reported >>

Failed(ts, ip) ==
    Step(failed(Cur, ts, ip), "failed") /\ NoRun

Exceeded(ts, ip, pubkey, stake) ==
    /\ Step(exceeded(Cur, ts, ip, pubkey, stake),
            "exceeded")
    /\ NoRun

Started(ts, ip, pubkey, stake) ==
    /\ Step(started(Cur, ts, ip, pubkey, stake),
            "started")
    /\ NoRun

Finished(ts, ip) ==
    Step(finished(Cur, ts, ip), "finished") /\ NoRun

VoteTx(ts, ip) ==
    Step(votetx(Cur, ts, ip), "votetx") /\ NoRun

UserTx(ts, ip, sig) ==
    Step(usertx(Cur, ts, ip, sig), "usertx") /\ NoRun

Forwarded(ts, sig) ==
    Step(forwarded(Cur, ts, sig), "forwarded") /\ NoRun

BadFee(ts, sig) ==
    Step(badfee(Cur, ts, sig), "badfee") /\ NoRun

FeeEv(ts, sig, cu_limit, cu_used, total) ==
    /\ Step(fee(Cur, ts, sig, cu_limit, cu_used, total),
            "fee")
    /\ NoRun

WillBeLeader(ts, slots) ==
    Step(will_be_leader(Cur, ts, slots), "will_be_leader")
    /\ NoRun

BeginLeader(ts) ==
    Step(begin_leader(Cur, ts), "begin_leader") /\ NoRun

EndLeader(ts) ==
    Step(end_leader(Cur, ts), "end_leader") /\ NoRun

\* the tick; the HashMap order in which retain visits the old Tx is free
Periodic(now_in) ==
    /\ \E order \in Perms(old_tx(Cur, get_timestamp(Cur, now_in).most_recent_timestamp)) :
          Step(periodic(Cur, now_in, order), "periodic")
    /\ NoRun

(***************************************************************************)
(* SpecClock: the clock alone.  Nothing is configured and no peer is       *)
(* known, so every handler below only calls get_timestamp; the history     *)
(* variables follow the run of calls that did not report a later time.     *)
(***************************************************************************)
ClockTs == {0, 5, 300000000}

TrackRun(ts) ==
    /\ run_len < MaxRun
    /\ last_reported' = ts
    /\ run_len' = IF ts <= most_recent_timestamp THEN run_len + 1 ELSE 0
    /\ run_base' = IF ts <= most_recent_timestamp /\ run_len > 0 THEN run_base
                   ELSE IF ts <= most_recent_timestamp THEN most_recent_timestamp ELSE ts

ClockFailed(ts, ip) ==
    Step(failed(Cur, ts, ip), "failed") /\ TrackRun(ts)

ClockFinished(ts, ip) ==
    Step(finished(Cur, ts, ip), "finished") /\ TrackRun(ts)

ClockVoteTx(ts, ip) ==
    Step(votetx(Cur, ts, ip), "votetx") /\ TrackRun(ts)

ClockFee(ts, sig) ==
    /\ Step(fee(Cur, ts, sig, 1, 1, 1),
            "fee")
    /\ TrackRun(ts)

ClockPeriodic(now_in) ==
    /\ Step(periodic(Cur, now_in, << >>), "periodic")
    /\ TrackRun(now_in)

EmptyConfig == MakeConfig(EmptyMap, None, None, << >>)

InitClock == InitState(EmptyConfig)

NextClock ==
    \/ \E ts \in ClockTs : ClockFailed(ts, "ipA")
    \/ \E ts \in ClockTs : ClockFinished(ts, "ipA")
    \/ \E ts \in ClockTs : ClockVoteTx(ts, "ipA")
    \/ \E ts \in ClockTs : ClockFee(ts, "sigS")
    \/ \E ts \in ClockTs : ClockPeriodic(ts)

SpecClock == InitClock /\ [][NextClock]_vars

\* C2: a run of at least 100 calls that report no later time than the clock
\* has advanced the effective timestamp by at least 1 ms
C2_RunAdvancesClock == run_len >= CLOCK_RUN_LIMIT => most_recent_timestamp >= run_base + 1

\* C1: the effective timestamp never decreases from one call to the next
C1_ClockMonotonic == [][most_recent_timestamp' >= most_recent_timestamp]_vars

\* a call (event or tick) reported an earlier time than the clock and the clock stayed
C1_Witness == last_reported < most_recent_timestamp /\ run_len > 0 /\ last_op = "periodic"

(***************************************************************************)
(* Spec: group membership.  One connection classification whose two        *)
(* thresholds share the group bad_quic, and two known pubkeys that share   *)
(* the group known_pubkeys.                                                *)
(***************************************************************************)
SpecTs == {Base, Base + 5000, Base + 20000}

GroupConfig ==
    MakeConfig(
        [ failed_exceeded_quic_connections |->
            Cls(None, Some(15), None,
                << Thr(Some("bad_quic"), Some(60), None, None, None,
                       "sum", "greater_than", 1, 6000, Some(TRUE)),
                   Thr(Some("bad_quic"), None, None, None, None,
                       "sum", "greater_than_or_equal_to", 1, 6000, None) >>) ],
        None, None,
        << [ pubkey |-> "pkK", group_name |-> None, group_expiration_seconds |-> Some(5) ],
           [ pubkey |-> "pkL", group_name |-> None, group_expiration_seconds |-> Some(20) ] >>)

Init == InitState(GroupConfig)

Next ==
    \/ \E ts \in SpecTs : Failed(ts, "ipB")
    \/ \E ts \in SpecTs, ip \in IPs, pk \in {"pkK", "pkL"} : Started(ts, ip, Some(pk), 500)
    \/ \E ts \in SpecTs : Periodic(ts)

Spec == Init /\ [][Next]_vars

\* the lines of o about (ip, group) printed by `src` with an operation in ops
LinesOf(o, src, ops, ip, group) ==
    { i \in 1..Len(o) : /\ o[i].src = src /\ o[i].op \in ops
                        /\ o[i].ip = ip /\ o[i].group = group }

Members(groups, g) == IF g \in DOMAIN groups THEN groups[g] ELSE EmptyMap

NeverLowered(before, after) ==
    \A g \in DOMAIN before : \A ip \in DOMAIN before[g] :
        ip \in DOMAIN Members(after, g) => after[g][ip] >= before[g][ip]

\* C6: while an ip stays a member of a group, its stored expiry never decreases,
\* in the pubkey groups and in the classification groups
C6_ExpiryNeverLowered ==
    [][ /\ NeverLowered(pubkey_groups, pubkey_groups')
        /\ NeverLowered(classification_groups, classification_groups') ]_vars

\* a Started whose add carried a lower expiry than the stored one was applied silently
C6_Witness ==
    /\ last_op = "started" /\ out = << >> /\ most_recent_timestamp = Base + 5000
    /\ \E ip \in DOMAIN Members(pubkey_groups, "known_pubkeys") :
          /\ pubkey_groups["known_pubkeys"][ip] = Base + 20000
          /\ peers[ip].most_recent_timestamp = Base + 5000

\* the sweep of one group map by a tick that ended at time now, seen from outside
SweptExactly(before, after, o, src, now) ==
    /\ \A g \in DOMAIN after : \A ip \in DOMAIN after[g] : after[g][ip] >= now
    /\ \A g \in DOMAIN before : \A ip \in DOMAIN before[g] :
          /\ before[g][ip] >= now => ip \in DOMAIN Members(after, g)
          /\ ip \notin DOMAIN Members(after, g) =>
                /\ before[g][ip] < now
                /\ Cardinality(LinesOf(o, src, {"Remove"}, ip, g)) = 1
          /\ ip \in DOMAIN Members(after, g) => LinesOf(o, src, {"Remove"}, ip, g) = {}
    /\ \A i \in 1..Len(o) :
          (o[i].src = src /\ o[i].op = "Remove") =>
              /\ o[i].ip \in DOMAIN Members(before, o[i].group)
              /\ o[i].ip \notin DOMAIN Members(after, o[i].group)

\* C7: a tick removes exactly the members whose expiry is < now, printing one Remove
\* for each; a member whose expiry is >= now is still a member after the tick
C7_TickRemovesExpired ==
    [][ (last_op' = "periodic" /\ ~ panicked') =>
          /\ SweptExactly(pubkey_groups, pubkey_groups', out', "pubkey", most_recent_timestamp')
          /\ SweptExactly(classification_groups, classification_groups', out', "group",
                          most_recent_timestamp') ]_vars

\* a tick removed one member and kept another whose expiry is exactly now
C7_Witness ==
    /\ last_op = "periodic" /\ ~ panicked
    /\ \E i \in 1..Len(out) : out[i].op = "Remove" /\ out[i].src = "pubkey"
    /\ \E i \in 1..Len(out) : out[i].op = "Remove" /\ out[i].src = "group"
    /\ \E ip \in DOMAIN Members(pubkey_groups, "known_pubkeys") :
          pubkey_groups["known_pubkeys"][ip] = most_recent_timestamp

\* the Add and Update lines about (ip, g) that the classification groups printed, in order
RECURSIVE AddLines(_, _, _)
AddLines(o, ip, g) ==
    IF o = << >> THEN << >>
    ELSE (IF /\ Head(o).src = "group" /\ Head(o).op \in {"Add", "Update"}
             /\ Head(o).ip = ip /\ Head(o).group = g
          THEN << Head(o) >> ELSE << >>) \o AddLines(Tail(o), ip, g)

\* the lines `adds` are what Group::add prints for a member stored as `stored`
\* (None: not a member): an Add first if absent, then only Updates that raise the expiry
RECURSIVE AddsRaise(_, _)
AddsRaise(adds, stored) ==
    IF adds = << >> THEN TRUE
    ELSE /\ Head(adds).op = (IF stored = None THEN "Add" ELSE "Update")
         /\ stored # None => Head(adds).expiration > stored[1]
         /\ AddsRaise(Tail(adds), Some(Head(adds).expiration))

GroupNamesOf(o) == { o[i].group : i \in { j \in 1..Len(o) : o[j].src = "group" } }

ExpectedExpirations(g, now) ==
    UNION { { now + 1000 * UnwrapOr(config.raw[name].thresholds[i].group_expiration_seconds,
                              UnwrapOr(config.raw[name].group_expiration_seconds,
                                       DEFAULT_GROUP_EXPIRATION_SECONDS)) :
              i \in { j \in 1..Len(config.raw[name].thresholds) :
                        UnwrapOr(config.raw[name].thresholds[j].group_name,
                                 UnwrapOr(config.raw[name].group_name, name)) = g } } :
            name \in DOMAIN config.raw }

\* C9: every add made by a matching threshold at a tick carries the expiry
\* now + group_expiration_seconds * 1000
C9_ExpiryIsSecondsTimes1000 ==
    last_op = "periodic" =>
        \A i \in 1..Len(out) :
            (out[i].src = "group" /\ out[i].op \in {"Add", "Update"}) =>
                out[i].expiration \in ExpectedExpirations(out[i].group, most_recent_timestamp)

(***************************************************************************)
(* SpecStake: the stake band.  Three thresholds, each with a group of its  *)
(* own: low_stake only, high_stake only, and both.                         *)
(***************************************************************************)
StakeTs == {1000, Base, Base + 5000}
StakeValues == {500, 1000, 2000}

StakeConfig ==
    MakeConfig(
        [ failed_exceeded_quic_connections |->
            Cls(None, Some(1), Some(TRUE),
                << Thr(Some("low"), None, Some(1000), None, None,
                       "sum", "greater_than_or_equal_to", 1, 6000, None),
                   Thr(Some("high"), None, None, Some(1000), None,
                       "sum", "greater_than_or_equal_to", 1, 6000, None),
                   Thr(Some("band"), None, Some(400), Some(600), None,
                       "sum", "greater_than_or_equal_to", 1, 6000, None) >>) ],
        None, None, << >>)

InitStake == InitState(StakeConfig)

NextStake ==
    \/ \E ts \in StakeTs, ip \in IPs : Failed(ts, ip)
    \/ \E ts \in StakeTs, stake \in StakeValues : Started(ts, "ipA", None, stake)
    \/ \E ts \in StakeTs, stake \in StakeValues : Exceeded(ts, "ipA", None, stake)
    \/ \E ts \in StakeTs : Periodic(ts)

SpecStake == InitStake /\ [][NextStake]_vars

\* the band of the claim: low_stake <= s when given, s <= high_stake when given
InBand(t, s) ==
    /\ IsSome(t.low_stake) => t.low_stake[1] <= s
    /\ IsSome(t.high_stake) => s <= t.high_stake[1]

\* some configured threshold that adds to group g accepts the stake s
SomeThresholdAccepts(g, s) ==
    \E name \in ClsSet :
        /\ IsSome(config.cls[name])
        /\ \E i \in 1..Len(config.cls[name][1].thresholds) :
              /\ config.cls[name][1].thresholds[i].group_name = Some(g)
              /\ InBand(config.cls[name][1].thresholds[i], s)

\* C10: a threshold adds an ip to its group only when the ip's stake at the tick (0 without
\* a stake entry) lies in the threshold's band; stake entries are written only by Started
\* and Exceeded and dropped only by a tick
C10_StakeBand ==
    [][ /\ \A i \in 1..Len(out') :
              (out'[i].src = "group" /\ out'[i].op \in {"Add", "Update"}) =>
                  SomeThresholdAccepts(out'[i].group, stake_of(stakes, out'[i].ip))
        /\ \A g \in DOMAIN classification_groups' :
              \A ip \in DOMAIN classification_groups'[g] :
                  (ip \notin DOMAIN Members(classification_groups, g)
                   \/ classification_groups'[g][ip] # Members(classification_groups, g)[ip]) =>
                      SomeThresholdAccepts(g, stake_of(stakes, ip))
        /\ stakes' # stakes =>
              \/ last_op' \in {"started", "exceeded"}
              \/ /\ last_op' = "periodic"
                 /\ DOMAIN stakes' \subseteq DOMAIN stakes
                 /\ \A ip \in DOMAIN stakes' : stakes'[ip] = stakes[ip]
    ]_vars

\* a tick matched an ip of stake 2000 for the low_stake threshold and, its stake being
\* above high_stake, left it out of the group of the threshold that has high_stake only
C10_Witness ==
    /\ last_op = "periodic" /\ ~ panicked
    /\ stake_of(stakes, "ipA") = 2000
    /\ \E i \in 1..Len(out) : out[i].op = "Add" /\ out[i].group = "low" /\ out[i].ip = "ipA"
    /\ "ipA" \notin DOMAIN Members(classification_groups, "high")
    /\ "ipA" \notin DOMAIN Members(classification_groups, "band")
    /\ \E i \in 1..Len(out) : out[i].op = "Add" /\ out[i].group = "high" /\ out[i].ip = "ipB"

(***************************************************************************)
(* SpecFee: the Tx ledger and the three fee classifications.               *)
(***************************************************************************)
FeeTs == {Base, Base + 100000, Base + 250000}
FeeArgs == { << 1000, 800, 5000 >>, << 0, 800, 5000 >> }    \* cu_limit, cu_used, fee

FeeConfig ==
    MakeConfig(
        [ fee_lamports_submitted |->
            Cls(None, None, None,
                << Thr(None, None, None, None, None,
                       "average", "greater_than_or_equal_to", 5000, 200000, None) >>),
          fee_microlamports_per_cu_limit |->
            Cls(None, None, None,
                << Thr(None, None, None, None, None,
                       "sum", "greater_than", 100, 6000, None) >>),
          fee_microlamports_per_cu_used |->
            Cls(None, None, None,
                << Thr(None, None, None, None, Some(2),
                       "average", "less_than", 3, 200000, None) >>) ],
        None, None, << >>)

InitFee == InitState(FeeConfig)

NextFee ==
    \/ \E ts \in FeeTs, ip \in IPs : UserTx(ts, ip, "sigS")
    \/ \E ts \in FeeTs : UserTx(ts, "ipA", "sigT")
    \/ \E ts \in FeeTs, sig \in Sigs, a \in FeeArgs : FeeEv(ts, sig, a[1], a[2], a[3])
    \/ \E ts \in FeeTs : Periodic(ts)

SpecFee == InitFee /\ [][NextFee]_vars

Sorted(series) ==
    \A i \in 1..Len(series) : \A j \in i..Len(series) :
        series[i].timestamp <= series[j].timestamp

\* C3: every per-IP value series of every Classification is sorted by timestamp
C3_SeriesSorted ==
    \A name \in ClsSet : \A ip \in DOMAIN recent_values[name] :
        Sorted(recent_values[name][ip])

\* C4: right after a tick at time now, every series of every configured Classification
\* holds only entries with timestamp >= now - max_duration_ms, and none is empty
C4_SeriesBounded ==
    (last_op = "periodic" /\ ~ panicked) =>
        \A name \in ClsSet : \A ip \in DOMAIN recent_values[name] :
            /\ recent_values[name][ip] # << >>
            /\ \A i \in 1..Len(recent_values[name][ip]) :
                  recent_values[name][ip][i].timestamp + config.cls[name][1].max_duration_ms
                      >= most_recent_timestamp

FeeClasses == { "fee_lamports_submitted", "fee_microlamports_per_cu_limit",
                "fee_microlamports_per_cu_used" }

\* the value of classification `name` derived from the fee f
FeeValue(name, f) ==
    CASE name = "fee_lamports_submitted" -> f.total
      [] name = "fee_microlamports_per_cu_limit" -> (f.total * 1000) \div f.cu_limit
      [] name = "fee_microlamports_per_cu_used" -> (f.total * 1000) \div f.cu_used

\* the entries of `f` that a tick fed to classification `name` for signature sig
FedFor(f, name, sig) == { i \in 1..Len(f) : f[i].cls = name /\ f[i].sig = sig }

WindowTs == {Base, Base + 100000, Base + 250000}

WindowConfig ==
    MakeConfig(
        [ fee_lamports_submitted |->
            Cls(None, Some(1), Some(TRUE),
                << Thr(Some("gt"), None, None, None, None,
                       "average", "greater_than", 2500, 300000, None),
                   Thr(Some("ge"), None, None, None, None,
                       "average", "greater_than_or_equal_to", 2500, 300000, None),
                   Thr(Some("lt"), None, None, None, Some(1),
                       "sum", "less_than", 5001, 200000, None),
                   Thr(Some("le"), None, None, None, Some(2),
                       "sum", "less_than_or_equal_to", 5001, 300000, None) >>) ],
        None, None, << >>)

InitWindow == InitState(WindowConfig)

NextWindow ==
    \/ \E ts \in WindowTs, ip \in IPs : UserTx(ts, ip, "sigS")
    \/ \E ts \in WindowTs : UserTx(ts, "ipA", "sigT")
    \/ \E ts \in WindowTs, sig \in Sigs : FeeEv(ts, sig, 1000, 800, 5001)
    \/ \E ts \in WindowTs : Periodic(ts)

SpecWindow == InitWindow /\ [][NextWindow]_vars

\* the positions of the series whose timestamp lies in the window [cutoff, ..)
InWindow(series, cutoff) == { i \in 1..Len(series) : series[i].timestamp >= cutoff }

RECURSIVE SumAt(_, _)
\* the sum of the values at the positions I of the series
SumAt(series, I) ==
    IF I = {} THEN 0
    ELSE LET i == CHOOSE x \in I : TRUE IN series[i].value + SumAt(series, I \ {i})

\* the quantity the claim has compared: the sum over the window, or its floored average
Quantity(t, series, now) ==
    LET W == InWindow(series, now - t.duration_ms)
    IN IF t.value_operation = "sum" THEN SumAt(series, W)
       ELSE SumAt(series, W) \div Cardinality(W)

Holds(comparator, q, v) ==
    \/ comparator = "greater_than" /\ q > v
    \/ comparator = "greater_than_or_equal_to" /\ q >= v
    \/ comparator = "less_than" /\ q < v
    \/ comparator = "less_than_or_equal_to" /\ q <= v

\* the stake gate and the minimum-count gate of the claim
GatesPass(t, series, now, stake) ==
    /\ InBand(t, stake)
    /\ IsSome(t.min_value_count) =>
          Cardinality(InWindow(series, now - t.duration_ms)) >= t.min_value_count[1]

\* C11: a threshold evaluated at now over a series compares the sum (or, with at least one
\* value in the window, the floored average) of exactly the values with timestamp >=
\* now - duration_ms, and adds the ip to its group if and only if the gates pass and the
\* comparison holds
C11_WindowQuantity ==
    [][ (last_op' = "periodic" /\ ~ panicked') =>
          \A k \in 1..Len(evaluated') :
            LET e == evaluated'[k]
                t == e.threshold
                g == t.group_name[1]
                expected == /\ GatesPass(t, e.series, e.now, e.stake)
                            /\ Holds(t.threshold_type, Quantity(t, e.series, e.now), t.value)
                added == \E i \in 1..Len(out') :
                            /\ out'[i].src = "group" /\ out'[i].op \in {"Add", "Update"}
                            /\ out'[i].ip = e.ip /\ out'[i].group = g
                            /\ out'[i].expiration = e.now + t.group_expiration_seconds[1]
            IN (t.value_operation = "sum" \/ InWindow(e.series, e.now - t.duration_ms) # {}) =>
                 /\ e.matched <=> expected
                 /\ expected => /\ g \in DOMAIN classification_groups'
                                /\ e.ip \in DOMAIN classification_groups'[g]
                                /\ classification_groups'[g][e.ip] >=
                                       e.now + t.group_expiration_seconds[1]
                 /\ added => expected
                 /\ (expected /\ (g \notin DOMAIN classification_groups
                                  \/ e.ip \notin DOMAIN Members(classification_groups, g)))
                        => added
    ]_vars

\* a tick evaluated ipA over the values 5001 and 0: the floored average 2500 is not
\* greater than 2500 but is greater than or equal to it, and the sum over the shorter
\* window leaves the older value out
C11_Witness ==
    /\ last_op = "periodic" /\ ~ panicked
    /\ \E k \in 1..Len(evaluated) :
          /\ evaluated[k].ip = "ipA" /\ evaluated[k].threshold.group_name = Some("gt")
          /\ Len(evaluated[k].series) = 2
          /\ SumAt(evaluated[k].series, {1, 2}) = 5001
          /\ ~ evaluated[k].matched
    /\ \E k \in 1..Len(evaluated) :
          /\ evaluated[k].ip = "ipA" /\ evaluated[k].threshold.group_name = Some("ge")
          /\ evaluated[k].matched
    /\ \E k \in 1..Len(evaluated) :
          /\ evaluated[k].ip = "ipA" /\ evaluated[k].threshold.group_name = Some("lt")
          /\ Cardinality(InWindow(evaluated[k].series,
                                  evaluated[k].now - evaluated[k].threshold.duration_ms)) = 1
          /\ evaluated[k].matched
    /\ \E i \in 1..Len(out) : out[i].op = "Add" /\ out[i].group = "ge" /\ out[i].ip = "ipA"

(***************************************************************************)
(* SpecOrder: three thresholds in a row, under each setting of             *)
(* evaluate_all_thresholds.                                                *)
(***************************************************************************)
OrderTs == {Base, Base + 5000, Base + 20000}
EvaluateAllSettings == { None, Some(FALSE), Some(TRUE) }

OrderConfig(eva) ==
    MakeConfig(
        [ failed_exceeded_quic_connections |->
            Cls(None, Some(1), eva,
                << Thr(Some("g1"), None, None, None, None,
                       "sum", "greater_than", 1, 6000, None),
                   Thr(Some("g2"), None, None, None, None,
                       "sum", "greater_than_or_equal_to", 1, 6000, Some(TRUE)),
                   Thr(Some("g3"), None, None, None, None,
                       "sum", "greater_than_or_equal_to", 1, 6000, Some(FALSE)) >>) ],
        None, None, << >>)

InitOrder == \E eva \in EvaluateAllSettings : InitState(OrderConfig(eva))

NextOrder ==
    \/ \E ts \in OrderTs, ip \in IPs : Failed(ts, ip)
    \/ \E ts \in OrderTs : Periodic(ts)

SpecOrder == InitOrder /\ [][NextOrder]_vars

\* the calls of the log made for one ip, in the order they were made
CallsFor(log, ip) == FilterSeq(log, { e \in { log[k] : k \in 1..Len(log) } : e.ip = ip })

\* the claim's condition for stopping after a call
StopsAfter(e) ==
    /\ e.matched
    /\ ~ UnwrapOr(e.threshold.continue_after_match, FALSE)
    /\ ~ e.evaluate_all

C12_WitnessAll ==
    /\ last_op = "periodic" /\ ~ panicked
    /\ config.cls["failed_exceeded_quic_connections"][1].evaluate_all_thresholds = Some(TRUE)
    /\ Len(CallsFor(evaluated, "ipB")) = 3
    /\ CallsFor(evaluated, "ipB")[1].matched
    /\ \A g \in {"g1", "g2", "g3"} :
          \E i \in 1..Len(out) : out[i].op = "Add" /\ out[i].group = g /\ out[i].ip = "ipB"

\* submitters is the set of the ips of submissions, and no ip is in submissions twice
TxWellFormed(tx) ==
    /\ tx.submissions # << >>
    /\ tx.submitters = { tx.submissions[i].submitter : i \in 1..Len(tx.submissions) }
    /\ \A i, j \in 1..Len(tx.submissions) :
          tx.submissions[i].submitter = tx.submissions[j].submitter => i = j

\* C13: a UserTx for a signature in the ledger from one of its submitters changes neither
\* submissions nor submitters; every Tx has submitters equal to the ips of submissions, each
\* once, and submissions[0] stays the submitter that created the Tx
C13_Resubmission ==
    [][ /\ \A ts \in FeeTs, ip \in IPs, sig \in Sigs :
              UserTx(ts, ip, sig) =>
                  IF sig \in DOMAIN current_tx
                  THEN ip \in current_tx[sig].submitters =>
                           current_tx'[sig] = current_tx[sig]
                  ELSE current_tx'[sig].submissions =
                           << [ timestamp |-> most_recent_timestamp', submitter |-> ip ] >>
        /\ \A sig \in DOMAIN current_tx' : TxWellFormed(current_tx'[sig])
        /\ \A sig \in DOMAIN current_tx \cap DOMAIN current_tx' :
              /\ Len(current_tx'[sig].submissions) >= Len(current_tx[sig].submissions)
              /\ \A i \in 1..Len(current_tx[sig].submissions) :
                    current_tx'[sig].submissions[i] = current_tx[sig].submissions[i]
    ]_vars

\* sigS, submitted by ipA and then by ipB, was submitted once more after the clock had
\* moved on: the two submissions are as they were
C13_Witness ==
    /\ last_op = "usertx"
    /\ DOMAIN current_tx = {"sigS"}
    /\ Len(current_tx["sigS"].submissions) = 2
    /\ current_tx["sigS"].submissions[1].submitter = "ipA"
    /\ current_tx["sigS"].submissions[2].submitter = "ipB"
    /\ current_tx["sigS"].submissions[2].timestamp < most_recent_timestamp

\* the values the log f holds for classification `name` and signature sig, in log order
FedSeq(f, name, sig) ==
    FilterSeq(f, { e \in { f[k] : k \in 1..Len(f) } : e.cls = name /\ e.sig = sig })

SubsetFeeArgs == { << 1000, 800, 5000 >>, << 0, 800, 5000 >>, << 3000, 7, 2 >> }

FeeSubsetConfig(S) ==
    MakeConfig(
        [ name \in S |->
            Cls(None, None, None,
                << Thr(None, None, None, None, None,
                       "sum", "greater_than", 100000000, 200000, None) >>) ],
        None, None, << >>)

InitFeeSubset == \E S \in SUBSET FeeClasses : InitState(FeeSubsetConfig(S))

NextFeeSubset ==
    \/ \E ts \in FeeTs, ip \in IPs : UserTx(ts, ip, "sigS")
    \/ \E ts \in FeeTs, a \in SubsetFeeArgs : FeeEv(ts, "sigS", a[1], a[2], a[3])
    \/ \E ts \in FeeTs : Periodic(ts)

SpecFeeSubset == InitFeeSubset /\ [][NextFeeSubset]_vars

\* the fee the claim attributes to submission `index` of tx
Attributed(tx, index) ==
    IF index = 1 /\ IsSome(tx.fee) THEN tx.fee[1]
    ELSE [ total |-> 0, cu_limit |-> 1, cu_used |-> 1 ]

\* C15: every value emitted at eviction for a submission with attributed fee f is f.total
\* for fee_lamports_submitted, floor(f.total * 1000 / f.cu_limit) and floor(f.total * 1000 /
\* f.cu_used) for the two per-CU Classifications; a Classification that is not configured
\* receives nothing, and each configured one receives one value per submission
C15_FeeValues ==
    [][ (last_op' = "periodic" /\ ~ panicked') =>
          /\ \A k \in 1..Len(fed') :
                /\ fed'[k].cls \in FeeClasses
                /\ IsSome(config.cls[fed'[k].cls])
                /\ fed'[k].value =
                       FeeValue(fed'[k].cls, Attributed(current_tx[fed'[k].sig], fed'[k].index))
          /\ \A name \in FeeClasses :
                IF IsSome(config.cls[name])
                THEN \A sig \in DOMAIN current_tx \ DOMAIN current_tx' :
                         Len(FedSeq(fed', name, sig)) = Len(current_tx[sig].submissions)
                ELSE recent_values'[name] = EmptyMap
    ]_vars

\* with fee_microlamports_per_cu_limit left out of the configuration, a tick evicted a Tx
\* landed with fee 2, cu_used 7: 2 for fee_lamports_submitted, floor(2000 / 7) = 285 per
\* CU used, nothing per CU limit
C15_Witness ==
    /\ last_op = "periodic" /\ ~ panicked
    /\ config.cls["fee_microlamports_per_cu_limit"] = None
    /\ \E i, j \in 1..Len(fed) :
          /\ fed[i].cls = "fee_lamports_submitted" /\ fed[i].value = 2
          /\ fed[j].cls = "fee_microlamports_per_cu_used" /\ fed[j].value = 285
          /\ fed[i].index = 1 /\ fed[j].index = 1
    /\ \E i \in 1..Len(fed) : fed[i].index = 2 /\ fed[i].value = 0

(***************************************************************************)
(* SpecS4: the events and the times of scenario S4.                        *)
(***************************************************************************)
S4SubmitTs == {100, 200, 300}
S4FeeTs == {400}
S4TickTs == {200000, 400000}

InitS4 == InitState(FeeConfig)

NextS4 ==
    \/ \E ts \in S4SubmitTs, ip \in IPs : UserTx(ts, ip, "sigS")
    \/ \E ts \in S4FeeTs : FeeEv(ts, "sigS", 1000, 800, 5000)
    \/ \E ts \in S4TickTs : Periodic(ts)

SpecS4 == InitS4 /\ [][NextS4]_vars

\* the ledger of S4 before the tick: S submitted by A at 100 and B at 200, landed
S4Ledger ==
    /\ "sigS" \in DOMAIN current_tx
    /\ current_tx["sigS"].submissions = << [ timestamp |-> 100, submitter |-> "ipA" ],
                                           [ timestamp |-> 200, submitter |-> "ipB" ] >>
    /\ current_tx["sigS"].fee = Some([ total |-> 5000, cu_limit |-> 1000, cu_used |-> 800 ])

\* the values the tick fed for sigS, as << classification, ip, timestamp, value >>
S4Fed(f) ==
    LET mine == FilterSeq(f, { e \in { f[k] : k \in 1..Len(f) } : e.sig = "sigS" })
    IN [ k \in 1..Len(mine) |->
           << mine[k].cls, mine[k].ip, mine[k].timestamp, mine[k].value >> ]

S4Values(per_cu_limit, per_cu_used) ==
    << << "fee_lamports_submitted", "ipA", 100, 5000 >>,
       << "fee_microlamports_per_cu_limit", "ipA", 100, per_cu_limit >>,
       << "fee_microlamports_per_cu_used", "ipA", 100, per_cu_used >>,
       << "fee_lamports_submitted", "ipB", 200, 0 >>,
       << "fee_microlamports_per_cu_limit", "ipB", 200, 0 >>,
       << "fee_microlamports_per_cu_used", "ipB", 200, 0 >> >>

\* a further submission of S by A or B (the third of S4) leaves the Tx of S as it is
S4ThirdSuppressed ==
    (S4Ledger /\ last_op' = "usertx") => current_tx'["sigS"] = current_tx["sigS"]

\* C16 as stated: the tick of S4 feeds A@100 the values 5000, 5 and 6, B@200 the values
\* 0, 0, 0, and nothing for the third submission
C16_S4AsStated ==
    [][ /\ S4ThirdSuppressed
        /\ (S4Ledger /\ last_op' = "periodic" /\ most_recent_timestamp' = 200000)
              => S4Fed(fed') = S4Values(5, 6)
    ]_vars

\* C16 amended: the tick of S4 feeds A@100 the values 5000, 5000 (= 5000 * 1000 / 1000)
\* and 6250 (= 5000 * 1000 / 800), B@200 the values 0, 0, 0, and nothing for the third
\* submission
C16_S4Amended ==
    [][ /\ S4ThirdSuppressed
        /\ (S4Ledger /\ last_op' = "periodic" /\ most_recent_timestamp' = 200000)
              => S4Fed(fed') = S4Values(5000, 6250)
    ]_vars

\* after the tick of S4: sigS is gone and the series of A and B hold the values of S4
C16_Witness ==
    /\ last_op = "periodic"
    /\ most_recent_timestamp = 200000
    /\ S4Fed(fed) = S4Values(5000, 6250)
    /\ "sigS" \notin DOMAIN current_tx

(***************************************************************************)
(* SpecPeer: the peer table, its reaping after three days, and the useless *)
(* connection test of Finished, with the Classification configured or not  *)
(* and the duration given or defaulted.                                    *)
(***************************************************************************)
PeerTs == {Base, Base + 1999, Base + 2000, Base + PEER_RETENTION_DURATION_MS + 2000}
UselessDurations == { None, Some(1999) }

PeerConfig(configured, useless_ms) ==
    MakeConfig(
        IF configured
        THEN [ useless_quic_connections |->
                 Cls(None, Some(1), None,
                     << Thr(None, None, None, None, None,
                            "sum", "greater_than", 1, 6000, None) >>) ]
        ELSE << >>,
        useless_ms, None, << >>)

InitPeer ==
    \E configured \in BOOLEAN, useless_ms \in UselessDurations :
        InitState(PeerConfig(configured, useless_ms))

NextPeer ==
    \/ \E ts \in PeerTs, ip \in IPs : Started(ts, ip, None, 500)
    \/ \E ts \in PeerTs : Finished(ts, "ipA")
    \/ \E ts \in PeerTs : VoteTx(ts, "ipA")
    \/ \E ts \in PeerTs : Periodic(ts)

SpecPeer == InitPeer /\ [][NextPeer]_vars

\* C17: a tick at effective time now removes exactly the peers last seen before
\* now - 259200000, together with their stake entries; every other peer and stake entry
\* stays as it is
C17_PeerReaping ==
    [][ (last_op' = "periodic" /\ ~ panicked') =>
          LET now == most_recent_timestamp'
          IN /\ DOMAIN peers' \subseteq DOMAIN peers
             /\ \A ip \in DOMAIN peers :
                   IF peers[ip].most_recent_timestamp < now - PEER_RETENTION_DURATION_MS
                   THEN ip \notin DOMAIN peers' /\ ip \notin DOMAIN stakes'
                   ELSE /\ ip \in DOMAIN peers' /\ peers'[ip] = peers[ip]
                        /\ ip \in DOMAIN stakes => (ip \in DOMAIN stakes' /\ stakes'[ip] = stakes[ip])
             /\ DOMAIN stakes' \subseteq DOMAIN stakes
    ]_vars

\* a tick removed ipA and its stake, and kept ipB, last seen exactly three days before
C17_Witness ==
    /\ last_op = "periodic" /\ ~ panicked
    /\ reaped = {"ipA"}
    /\ DOMAIN peers = {"ipB"} /\ DOMAIN stakes = {"ipB"}
    /\ peers["ipB"].most_recent_timestamp = most_recent_timestamp - PEER_RETENTION_DURATION_MS

\* the condition of the claim for a Finished of ip at effective time ts
UselessExpected(ip, ts) ==
    /\ IsSome(config.cls["useless_quic_connections"])
    /\ ip \in DOMAIN peers
    /\ peers[ip].tx_submitted = 0
    /\ ts - peers[ip].first_timestamp >=
          (IF config.useless_quic_connection_duration_ms = None THEN 2000
           ELSE config.useless_quic_connection_duration_ms[1])

\* C18: a Finished for an ip feeds (ip, effective ts, 1) into useless_quic_connections if
\* and only if that Classification is configured, the ip has a Peer, its tx_submitted is 0
\* and effective ts - first_seen >= useless_quic_connection_duration_ms (2000 by default);
\* otherwise nothing is fed
C18_UselessFinished ==
    [][ \A t \in PeerTs, ip \in IPs :
          Finished(t, ip) =>
            LET ts == most_recent_timestamp'
                name == "useless_quic_connections"
                old == IF ip \in DOMAIN recent_values[name]
                       THEN recent_values[name][ip] ELSE << >>
            IN IF UselessExpected(ip, ts)
               THEN /\ Len(fed') = 1
                    /\ fed'[1].cls = name /\ fed'[1].ip = ip
                    /\ fed'[1].timestamp = ts /\ fed'[1].value = 1
                    /\ recent_values'[name][ip] =
                           Append(old, [ timestamp |-> ts, value |-> 1 ])
               ELSE fed' = << >> /\ recent_values' = recent_values
    ]_vars

\* with the default duration, a Finished 2000 ms after the first Started of a peer that
\* submitted nothing fed the value 1
C18_Witness ==
    /\ last_op = "finished"
    /\ config.useless_quic_connection_duration_ms = None
    /\ Len(fed) = 1 /\ fed[1].value = 1 /\ fed[1].ip = "ipA"
    /\ fed[1].timestamp = most_recent_timestamp
    /\ peers["ipA"].first_timestamp = most_recent_timestamp - 2000
    /\ peers["ipA"].tx_submitted = 0

(***************************************************************************)
(* SpecMain: the threads of main.  The listener accepts connections, one   *)
(* ingest thread per connection deserializes messages and sends them into  *)
(* the channel, the owner thread receives them, applies them to the State  *)
(* and runs State::periodic once a second.  Time passes in steps of 100 ms.*)
(***************************************************************************)
WallStep == RECV_TIMEOUT_MS
MainMsgTs == {Base + 700}

\* a mutation of the channel: a sent message overtakes the waiting ones
channel_send_front(ch, m) == << m >> \o ch

\* line 74: sender.send on the unbounded channel
channel_send(ch, m) == Append(ch, m)

\* a mutation of the elapsed-time test: a tenth of the period is enough
tick_due_early(now, last) == ~ (now < last + (TICK_PERIOD_MS \div 10))

\* lines 119-122: `if now < (last_log_timestamp + 1000) { continue; }`
tick_due(now, last) == ~ (now < last + TICK_PERIOD_MS)

StateUntouched ==
    UNCHANGED << config, overflow_checks, panicked, most_recent_timestamp,
                 most_recent_timestamp_event_count, leader_status, peers, stakes,
                 current_tx, pubkey_groups, classification_groups, recent_values,
                 out, fed, evaluated, reaped, last_op, run_len, run_base, last_reported,
                 fee_log, earliest_submitter >>

\* time passes
Advance ==
    /\ wall + WallStep <= Base + WallSpan
    /\ wall' = wall + WallStep
    /\ StateUntouched
    /\ UNCHANGED << conn, next_seq, holding, channel, owner_pc, recv_start,
                    last_log_timestamp, applied, ticks, prev_tick_wall >>

\* lines 58-62 and 69: the listener accepts a connection and spawns its ingest thread
Accept(c) ==
    /\ conn[c] = "none"
    /\ conn' = [ conn EXCEPT ![c] = "open" ]
    /\ StateUntouched
    /\ UNCHANGED << wall, next_seq, holding, channel, owner_pc, recv_start,
                    last_log_timestamp, applied, ticks, prev_tick_wall >>

\* line 73, Ok: the ingest thread of c deserializes the next message of its stream
Deserialize(c, ts, ip) ==
    /\ conn[c] = "open" /\ holding[c] = None
    /\ next_seq[c] < MaxMsgs
    /\ next_seq' = [ next_seq EXCEPT ![c] = @ + 1 ]
    /\ holding' = [ holding EXCEPT ![c] =
                      Some([ type |-> "Failed", timestamp |-> ts, peer_addr |-> ip,
                             conn |-> c, seq |-> next_seq[c] + 1 ]) ]
    /\ StateUntouched
    /\ UNCHANGED << wall, conn, channel, owner_pc, recv_start,
                    last_log_timestamp, applied, ticks, prev_tick_wall >>

\* line 74: the ingest thread of c sends the message it holds
Send(c) ==
    /\ conn[c] = "open" /\ holding[c] # None
    /\ channel' = channel_send(channel, holding[c][1])
    /\ holding' = [ holding EXCEPT ![c] = None ]
    /\ StateUntouched
    /\ UNCHANGED << wall, conn, next_seq, owner_pc, recv_start,
                    last_log_timestamp, applied, ticks, prev_tick_wall >>

\* a mutation of the error branch: the messages waiting in the channel are lost
channel_after_close_emptied(ch) == << >>

\* lines 75-79: the ending thread drops its clone of the sender; the listener thread keeps
\* the original, so the channel stays connected and keeps what was sent
channel_after_close(ch) == ch

\* lines 75-79, Err: the stream of c fails to deserialize; its thread shuts it down and ends
DeserializeError(c) ==
    /\ conn[c] = "open" /\ holding[c] = None
    /\ conn' = [ conn EXCEPT ![c] = "closed" ]
    /\ channel' = channel_after_close(channel)
    /\ StateUntouched
    /\ UNCHANGED << wall, next_seq, holding, owner_pc, recv_start,
                    last_log_timestamp, applied, ticks, prev_tick_wall >>

\* lines 93 and 96: recv_timeout returns the oldest message, which is applied to the State
OwnerRecv ==
    /\ owner_pc = "recv" /\ channel # << >>
    /\ LET m == Head(channel)
       IN /\ Apply(failed(Cur, m.timestamp, m.peer_addr), "failed")
          /\ applied' = Append(applied, << m.conn, m.seq >>)
    /\ NoRun
    /\ channel' = Tail(channel)
    /\ owner_pc' = "check"
    /\ UNCHANGED << wall, conn, next_seq, holding, recv_start,
                    last_log_timestamp, ticks, prev_tick_wall, fee_log,
                    earliest_submitter >>

\* lines 93 and 95: recv_timeout returns Timeout after 100 ms without a message
OwnerTimeout ==
    /\ owner_pc = "recv" /\ channel = << >> /\ ~ panicked
    /\ wall >= recv_start + RECV_TIMEOUT_MS
    /\ owner_pc' = "check"
    /\ StateUntouched
    /\ UNCHANGED << wall, conn, next_seq, holding, channel, recv_start,
                    last_log_timestamp, applied, ticks, prev_tick_wall >>

\* lines 119-122: less than a second since the last tick, back to recv_timeout
OwnerContinue ==
    /\ owner_pc = "check" /\ ~ panicked
    /\ ~ tick_due(wall, last_log_timestamp)
    /\ owner_pc' = "recv" /\ recv_start' = wall
    /\ StateUntouched
    /\ UNCHANGED << wall, conn, next_seq, holding, channel,
                    last_log_timestamp, applied, ticks, prev_tick_wall >>

\* lines 119-126: State::periodic(now) runs and last_log_timestamp becomes now
OwnerPeriodic ==
    /\ owner_pc = "check"
    /\ tick_due(wall, last_log_timestamp)
    /\ \E order \in Perms(old_tx(Cur, get_timestamp(Cur, wall).most_recent_timestamp)) :
          Apply(periodic(Cur, wall, order), "periodic")
    /\ NoRun
    /\ last_log_timestamp' = wall
    /\ ticks' = ticks + 1 /\ prev_tick_wall' = wall
    /\ owner_pc' = "recv" /\ recv_start' = wall
    /\ UNCHANGED << wall, conn, next_seq, holding, channel, applied, fee_log,
                    earliest_submitter >>

Owner == OwnerRecv \/ OwnerTimeout \/ OwnerContinue \/ OwnerPeriodic

InitMain == InitState(EmptyConfig)

NextMain ==
    \/ Advance
    \/ \E c \in Conns : Accept(c)
    \/ \E c \in Conns, ts \in MainMsgTs : Deserialize(c, ts, IF c = "c1" THEN "ipA" ELSE "ipB")
    \/ \E c \in Conns : Send(c)
    \/ \E c \in Conns : DeserializeError(c)
    \/ OwnerRecv
    \/ OwnerTimeout
    \/ OwnerContinue
    \/ OwnerPeriodic

SpecMain == InitMain /\ [][NextMain]_vars

\* SpecTick: the owner thread fed by one connection; the owner thread keeps running
\* (it never blocks longer than the timeout of recv_timeout) and time keeps passing
NextTick ==
    \/ Advance
    \/ Accept("c1")
    \/ \E ts \in MainMsgTs : Deserialize("c1", ts, "ipA")
    \/ Send("c1")
    \/ OwnerRecv
    \/ OwnerTimeout
    \/ OwnerContinue
    \/ OwnerPeriodic

SpecTick == InitMain /\ [][NextTick]_vars /\ WF_vars(Owner) /\ WF_vars(Advance)

\* the numbers of the messages of connection c that were applied, in the order applied
AppliedOf(c) ==
    LET mine == FilterSeq(applied, { e \in { applied[k] : k \in 1..Len(applied) } : e[1] = c })
    IN [ k \in 1..Len(mine) |-> mine[k][2] ]

\* C19: the messages of one connection are applied to the State in the order in which
\* they were deserialized from it, whatever the other connections do
C19_ConnectionOrder ==
    \A c \in Conns :
        /\ Len(AppliedOf(c)) <= next_seq[c]
        /\ \A k \in 1..Len(AppliedOf(c)) : AppliedOf(c)[k] = k

\* the two messages of each of two connections were applied, interleaved
C19_Witness ==
    applied = << << "c1", 1 >>, << "c2", 1 >>, << "c1", 2 >>, << "c2", 2 >> >>

\* C20: State::periodic is run only when at least 1000 ms of system time have passed since
\* its previous run, and from any state the owner loop runs it again, whether the channel
\* stays empty or messages keep arriving (as long as the explored span of time leaves
\* room for a whole period)
C20_TickAgain ==
    /\ [][ ticks' # ticks =>
              /\ ticks' = ticks + 1
              /\ last_op' = "periodic"
              /\ (ticks > 0 => wall - prev_tick_wall >= 1000) ]_vars
    /\ \A n \in 0..(WallSpan \div TICK_PERIOD_MS) :
          (ticks = n /\ ~ panicked /\ wall + TICK_PERIOD_MS + WallStep <= Base + WallSpan)
              ~> (ticks > n)

\* the second tick has run, one second after the first, and a message was applied in between
C20_Witness ==
    /\ ticks = 2
    /\ prev_tick_wall = Base + 1000
    /\ applied # << >>

(***************************************************************************)
(* SpecError: each connection delivers one message; c1 may fail to         *)
(* deserialize at any point, before or after c2 is accepted; the owner     *)
(* thread keeps running and time keeps passing.                            *)
(***************************************************************************)
NextError ==
    \/ Advance
    \/ \E c \in Conns : Accept(c)
    \/ \E ts \in MainMsgTs : next_seq["c1"] = 0 /\ Deserialize("c1", ts, "ipA")
    \/ \E ts \in MainMsgTs : next_seq["c2"] = 0 /\ Deserialize("c2", ts, "ipB")
    \/ \E c \in Conns : Send(c)
    \/ DeserializeError("c1")
    \/ OwnerRecv
    \/ OwnerTimeout
    \/ OwnerContinue
    \/ OwnerPeriodic

SpecError == InitMain /\ [][NextError]_vars /\ WF_vars(Owner) /\ WF_vars(Advance)

InChannel(c, k) == \E i \in 1..Len(channel) : channel[i].conn = c /\ channel[i].seq = k
WasApplied(c, k) == \E i \in 1..Len(applied) : applied[i] = << c, k >>
\* the messages still in the channel whose connection has failed
LeftBehind == { c \in Conns : conn[c] = "closed" /\ \E k \in 1..MaxMsgs : InChannel(c, k) }
SentBy(c) == next_seq[c] - (IF holding[c] = None THEN 0 ELSE 1)

\* C21: a deserialization error on a connection ends only that connection's thread: the
\* step changes nothing but the connection's status, every message the connection sent is
\* in the channel or was applied, and is applied in the end; the other connection can still
\* be accepted and deliver, and the owner loop is never stopped by it
C21_ErrorIsLocal ==
    /\ [][ \A c \in Conns : (conn[c] = "open" /\ conn'[c] = "closed") =>
              /\ channel' = channel /\ applied' = applied
              /\ holding' = holding /\ next_seq' = next_seq
              /\ owner_pc' = owner_pc /\ panicked' = panicked
              /\ \A d \in Conns \ {c} : conn'[d] = conn[d] ]_vars
    /\ [](\A c \in Conns : conn[c] = "closed" =>
              /\ \A k \in 1..SentBy(c) : InChannel(c, k) \/ WasApplied(c, k)
              /\ \A d \in Conns \ {c} :
                    /\ conn[d] = "none" => ENABLED Accept(d)
                    /\ (conn[d] = "open" /\ holding[d] # None) => ENABLED Send(d)
              /\ (owner_pc = "recv" /\ channel # << >>) => ENABLED OwnerRecv
              /\ owner_pc = "check" => ENABLED (OwnerContinue \/ OwnerPeriodic))
    /\ (LeftBehind # {}) ~> (LeftBehind = {})

\* c1 has failed with its message still in the channel, c2 is not accepted yet
C21_Pending ==
    /\ conn["c1"] = "closed" /\ conn["c2"] = "none"
    /\ InChannel("c1", 1)

\* c1 has failed; its message was applied, and so was the message of c2 after it
C21_Witness ==
    /\ conn["c1"] = "closed"
    /\ applied = << << "c1", 1 >>, << "c2", 1 >> >>
    /\ ticks >= 1

(***************************************************************************)
(* SpecAverage: averages over a window shorter than the series.  The       *)
(* classification keeps values for 300000 ms; three of its thresholds      *)
(* average over the last 100000 ms only, so their window can be empty      *)
(* while the series is not.                                                *)
(***************************************************************************)
AverageTs == {Base, Base + 150000, Base + 250000}

AverageConfig ==
    MakeConfig(
        [ failed_exceeded_quic_connections |->
            Cls(None, Some(1), Some(TRUE),
                << Thr(Some("lt"), None, None, None, None,
                       "average", "less_than", 5, 100000, None),
                   Thr(Some("le"), None, None, None, None,
                       "average", "less_than_or_equal_to", 5, 100000, None),
                   Thr(Some("gt"), None, None, None, None,
                       "average", "greater_than", 0, 100000, None),
                   Thr(Some("all"), None, None, None, None,
                       "sum", "greater_than", 0, 300000, None) >>) ],
        None, None, << >>)

InitAverage == InitState(AverageConfig)

NextAverage ==
    \/ \E ts \in AverageTs, ip \in IPs : Failed(ts, ip)
    \/ \E ts \in AverageTs : Periodic(ts)

SpecAverage == InitAverage /\ [][NextAverage]_vars

\* an evaluation of an average threshold whose window holds no value
EmptyAverage(e) ==
    /\ e.threshold.value_operation = "average"
    /\ InWindow(e.series, e.now - e.threshold.duration_ms) = {}

\* C22: an average threshold evaluated over a window without values does not match,
\* whatever its comparator
C22_EmptyAverageNeverMatches ==
    \A k \in 1..Len(evaluated) : EmptyAverage(evaluated[k]) => ~ evaluated[k].matched

\* the half of C22 that holds: over a window without values only the two less-than
\* comparators match, and the tick does not fault
C22_EmptyAverageOutcome ==
    \A k \in 1..Len(evaluated) :
        EmptyAverage(evaluated[k]) =>
            /\ ~ panicked
            /\ evaluated[k].matched <=>
                  evaluated[k].threshold.threshold_type \in {"less_than", "less_than_or_equal_to"}

\* a tick evaluated an average over an empty window with a less-than comparator
C22_Witness ==
    /\ last_op = "periodic" /\ ~ panicked
    /\ \E k \in 1..Len(evaluated) :
          /\ EmptyAverage(evaluated[k])
          /\ evaluated[k].threshold.threshold_type = "less_than"
          /\ evaluated[k].series # << >>

(***************************************************************************)
(* Division at eviction (SpecFeeSubset).                                   *)
(***************************************************************************)
\* the divisors the eviction of tx uses under the configuration
Divisors(tx) ==
    UNION { (IF IsSome(config.cls["fee_microlamports_per_cu_limit"])
             THEN { Attributed(tx, i).cu_limit } ELSE {})
            \cup
            (IF IsSome(config.cls["fee_microlamports_per_cu_used"])
             THEN { Attributed(tx, i).cu_used } ELSE {}) : i \in 1..Len(tx.submissions) }

\* C23: no tick divides by zero at the eviction of a Tx: every divisor used for a Tx that
\* the tick evicts is non-zero and the tick does not fault
C23_NoDivisionByZero ==
    [][ last_op' = "periodic" =>
          /\ ~ panicked'
          /\ \A sig \in old_tx(Cur, most_recent_timestamp') : 0 \notin Divisors(current_tx[sig])
    ]_vars

\* what holds instead: the tick faults exactly when the landed fee of an evicted Tx has a
\* zero cu_limit or cu_used and the Classification dividing by it is configured
C23_FaultsOnZero ==
    [][ last_op' = "periodic" =>
          (panicked' <=> \E sig \in old_tx(Cur, most_recent_timestamp') :
                             0 \in Divisors(current_tx[sig]))
    ]_vars

\* a tick faulted at the eviction of a Tx landed with cu_limit 0
C23_Witness ==
    /\ last_op = "periodic" /\ panicked
    /\ IsSome(config.cls["fee_microlamports_per_cu_limit"])

(***************************************************************************)
(* SpecConn: the connection events Failed, Started and Exceeded, with and  *)
(* without failed_exceeded_quic_connections configured, with a known, an   *)
(* unknown and no pubkey.                                                  *)
(***************************************************************************)
ConnTs == {Base, Base + 5000}
ConnPubkeys == {None, Some("pkK"), Some("pkZ")}

PubkeyOnlyConfig ==
    MakeConfig(EmptyMap, None, None,
        << [ pubkey |-> "pkK", group_name |-> None, group_expiration_seconds |-> Some(5) ] >>)

InitConn == \E cfg \in {GroupConfig, PubkeyOnlyConfig} : InitState(cfg)

NextConn ==
    \/ \E ts \in ConnTs, ip \in IPs : Failed(ts, ip)
    \/ \E ts \in ConnTs, pk \in ConnPubkeys : Started(ts, "ipA", pk, 500)
    \/ \E ts \in ConnTs, ip \in IPs, pk \in ConnPubkeys : Exceeded(ts, ip, pk, 1000)
    \/ \E ts \in ConnTs : Periodic(ts)

SpecConn == InitConn /\ [][NextConn]_vars

\* the step fed the one value 1 of ip at the new effective timestamp into
\* failed_exceeded_quic_connections (when configured) and nothing else
FedOneFailure(ts, ip) ==
    LET name == "failed_exceeded_quic_connections"
        T == most_recent_timestamp'
    IN /\ T = IF ts > most_recent_timestamp THEN ts ELSE most_recent_timestamp
       /\ IF IsSome(config.cls[name])
          THEN /\ Len(fed') = 1
               /\ fed'[1].cls = name /\ fed'[1].ip = ip
               /\ fed'[1].timestamp = T /\ fed'[1].value = 1
               /\ recent_values'[name] =
                     [ i \in DOMAIN recent_values[name] \cup {ip} |->
                         IF i = ip
                         THEN Append(IF ip \in DOMAIN recent_values[name]
                                     THEN recent_values[name][ip] ELSE << >>,
                                     [ timestamp |-> T, value |-> 1 ])
                         ELSE recent_values[name][i] ]
          ELSE fed' = << >> /\ recent_values'[name] = recent_values[name]
       /\ \A other \in ClsSet \ {name} : recent_values'[other] = recent_values[other]
       /\ current_tx' = current_tx
       /\ classification_groups' = classification_groups

\* C24: Failed feeds one value 1 at the effective timestamp into
\* failed_exceeded_quic_connections and leaves peers, stakes, Tx ledger and groups alone;
\* Exceeded feeds the same one value and changes the peers, the stakes and the pubkey groups
\* exactly as Started with the same arguments does
C24_ExceededIsFailedThenStarted ==
    [][ /\ \A ts \in ConnTs, ip \in IPs :
              (last_op' = "failed" /\ Failed(ts, ip)) =>
                  /\ FedOneFailure(ts, ip)
                  /\ peers' = peers /\ stakes' = stakes
                  /\ pubkey_groups' = pubkey_groups /\ out' = << >>
        /\ \A ts \in ConnTs, ip \in IPs, pk \in ConnPubkeys :
              (last_op' = "exceeded" /\ Exceeded(ts, ip, pk, 1000)) =>
                  LET stake == 1000
                      st == started(Cur, ts, ip, pk, stake)
                  IN /\ FedOneFailure(ts, ip)
                     /\ peers' = st.peers /\ stakes' = st.stakes
                     /\ pubkey_groups' = st.pubkey_groups /\ out' = st.out
                     /\ ip \in DOMAIN peers' /\ peers'[ip].most_recent_timestamp = most_recent_timestamp'
                     /\ stakes'[ip] = stake
    ]_vars

\* an Exceeded with a known pubkey on a peer already known: the failure was fed, the peer
\* was refreshed, the stake replaced and the ip put in the pubkey group
C24_Witness ==
    /\ last_op = "exceeded"
    /\ Len(fed) = 1 /\ fed[1].ip = "ipA" /\ fed[1].timestamp = Base + 5000
    /\ "ipA" \in DOMAIN peers
    /\ peers["ipA"].first_timestamp = Base
    /\ peers["ipA"].most_recent_timestamp = Base + 5000
    /\ stakes["ipA"] = 1000
    /\ \E i \in 1..Len(out) : out[i].ip = "ipA" /\ out[i].src = "pubkey"

(***************************************************************************)
(* SpecCreate: the events that mention an ip before and after its Peer     *)
(* exists, and ticks three days later that reap it.                        *)
(***************************************************************************)
CreateTs == {Base, Base + 5000, Base + PEER_RETENTION_DURATION_MS + 6000}

InitCreate == InitState(EmptyConfig)

NextCreate ==
    \/ \E ts \in CreateTs : Started(ts, "ipA", None, 500)
    \/ \E ts \in CreateTs : Exceeded(ts, "ipB", None, 1000)
    \/ \E ts \in CreateTs, ip \in IPs : UserTx(ts, ip, "sigS")
    \/ \E ts \in CreateTs, ip \in IPs : Finished(ts, ip)
    \/ \E ts \in CreateTs : Periodic(ts)

SpecCreate == InitCreate /\ [][NextCreate]_vars

\* the step made the Peer of ip, first and last seen at the new effective timestamp
Created(ip) ==
    /\ ip \in DOMAIN peers'
    /\ peers'[ip].first_timestamp = most_recent_timestamp'
    /\ peers'[ip].most_recent_timestamp = most_recent_timestamp'

FirstBeforeLast ==
    \A ip \in DOMAIN peers : peers[ip].first_timestamp <= peers[ip].most_recent_timestamp

\* C25: a Started, Exceeded or UserTx event for an ip without a Peer creates the Peer with
\* first_seen = last_seen = the effective timestamp, and every Peer has
\* first_seen <= last_seen
C25_PeerCreation ==
    /\ [][ \A ip \in IPs \ DOMAIN peers :
              (\/ \E ts \in CreateTs : Started(ts, ip, None, 500)
               \/ \E ts \in CreateTs : Exceeded(ts, ip, None, 1000)
               \/ \E ts \in CreateTs : UserTx(ts, ip, "sigS")) => Created(ip) ]_vars
    /\ []FirstBeforeLast

\* what holds instead: Started and Exceeded create the Peer, UserTx for an ip without a
\* Peer leaves the peer table as it was, and every Peer has first_seen <= last_seen
C25_UserTxCreatesNothing ==
    /\ [][ \A ip \in IPs \ DOMAIN peers :
              /\ (\/ \E ts \in CreateTs : Started(ts, ip, None, 500)
                  \/ \E ts \in CreateTs : Exceeded(ts, ip, None, 1000)) => Created(ip)
              /\ (\E ts \in CreateTs : UserTx(ts, ip, "sigS")) => peers' = peers ]_vars
    /\ []FirstBeforeLast

\* a UserTx was received for an ip that had no Peer, and it still has none
C25_Witness ==
    /\ last_op = "usertx"
    /\ "sigS" \in DOMAIN current_tx
    /\ \E ip \in current_tx["sigS"].submitters : ip \notin DOMAIN peers

(***************************************************************************)
(* SpecLastFee: several Fee events for one Tx.  fee_log keeps the Fee      *)
(* events received for the Tx that are in the ledger, oldest first; the    *)
(* entries of a Tx leave the log when a tick evicts it.  sigT is never     *)
(* submitted, so a Fee for it names a signature that is not in the ledger. *)
(***************************************************************************)
LastFeeArgs == { << 1000, 800, 5000 >>, << 3000, 7, 2 >> }    \* cu_limit, cu_used, fee

FeeLogged(ts, sig, cu_limit, cu_used, total) ==
    /\ Apply(fee(Cur, ts, sig, cu_limit, cu_used, total), "fee")
    /\ NoRun
    /\ Len(fee_log) < MaxFees
    /\ fee_log' = IF sig \in DOMAIN current_tx
                  THEN Append(fee_log, [ sig |-> sig, fee |-> [ total |-> total,
                                         cu_limit |-> cu_limit, cu_used |-> cu_used ] ])
                  ELSE fee_log
    /\ UNCHANGED main_vars /\ UNCHANGED earliest_submitter

PeriodicLogged(now_in) ==
    /\ \E order \in Perms(old_tx(Cur, get_timestamp(Cur, now_in).most_recent_timestamp)) :
          Apply(periodic(Cur, now_in, order), "periodic")
    /\ NoRun
    /\ fee_log' = FilterSeq(fee_log, { e \in { fee_log[k] : k \in 1..Len(fee_log) } :
                                         e.sig \in DOMAIN current_tx' })
    /\ UNCHANGED main_vars /\ UNCHANGED earliest_submitter

InitLastFee == InitState(FeeSubsetConfig({"fee_lamports_submitted"}))

NextLastFee ==
    \/ \E ts \in FeeTs, ip \in IPs : UserTx(ts, ip, "sigS")
    \/ \E ts \in FeeTs, sig \in Sigs, a \in LastFeeArgs : FeeLogged(ts, sig, a[1], a[2], a[3])
    \/ \E ts \in FeeTs : PeriodicLogged(ts)

SpecLastFee == InitLastFee /\ [][NextLastFee]_vars

\* the Fee events logged for sig, oldest first
FeesOf(sig) == FilterSeq(fee_log, { e \in { fee_log[k] : k \in 1..Len(fee_log) } : e.sig = sig })

\* the fee received last for sig while it was in the ledger, if any
LastFee(sig) == IF FeesOf(sig) = << >> THEN None ELSE Some(FeesOf(sig)[Len(FeesOf(sig))].fee)

\* C26: the fee of a Tx in the ledger is the one of the last Fee event received for it
\* (none before the first), so that is the fee a tick attributes to its first submitter at
\* eviction; a Fee event for a signature that is not in the ledger changes no Tx, peer,
\* series or group
C26_LastFeeWins ==
    /\ [](\A sig \in DOMAIN current_tx : current_tx[sig].fee = LastFee(sig))
    /\ [][ last_op' = "periodic" =>
              \A k \in 1..Len(fed') :
                  fed'[k].value = IF fed'[k].index = 1
                                  THEN UnwrapOr(LastFee(fed'[k].sig), zero_fee).total
                                  ELSE 0 ]_vars
    /\ [][ \A ts \in FeeTs, sig \in Sigs \ DOMAIN current_tx, a \in LastFeeArgs :
              FeeLogged(ts, sig, a[1], a[2], a[3]) =>
                  /\ current_tx' = current_tx /\ peers' = peers /\ stakes' = stakes
                  /\ recent_values' = recent_values
                  /\ pubkey_groups' = pubkey_groups
                  /\ classification_groups' = classification_groups ]_vars

\* a tick evicted a Tx that had received the fee 5000 and then the fee 2, and fed 2 for
\* its first submitter
C26_Evicted ==
    /\ last_op = "periodic" /\ ~ panicked
    /\ \E k \in 1..Len(fed) : fed[k].sig = "sigS" /\ fed[k].index = 1 /\ fed[k].value = 2
    /\ "sigS" \notin DOMAIN current_tx
    /\ fee_log = << >>

\* the Tx in the ledger has received the fee 5000 and then the fee 2
C26_Witness ==
    /\ "sigS" \in DOMAIN current_tx
    /\ Len(FeesOf("sigS")) = 2
    /\ FeesOf("sigS")[1].fee.total = 5000 /\ FeesOf("sigS")[2].fee.total = 2
    /\ current_tx["sigS"].fee[1].total = 2

(***************************************************************************)
(* SpecLeader: the leader events and the tick, with and without            *)
(* outside_leader_slots configured, next to a peer and a Tx.               *)
(***************************************************************************)
LeaderTs == {Base, Base + 5000}
LeaderSlots == 4
SlotsAhead == {LeaderSlots - 1, LeaderSlots, LeaderSlots + 1}

LeaderConfig(outside) ==
    MakeConfig(
        [ failed_exceeded_quic_connections |->
            Cls(Some("bad_quic"), Some(15), None,
                << Thr(None, None, None, None, None,
                       "sum", "greater_than_or_equal_to", 1, 6000, None) >>) ],
        None, outside, << >>)

InitLeader ==
    \E outside \in {None, Some([ group_name |-> None, leader_slots |-> LeaderSlots ])} :
        InitState(LeaderConfig(outside))

NextLeader ==
    \/ \E ts \in LeaderTs, slots \in SlotsAhead : WillBeLeader(ts, slots)
    \/ \E ts \in LeaderTs : BeginLeader(ts)
    \/ \E ts \in LeaderTs : EndLeader(ts)
    \/ \E ts \in LeaderTs : Exceeded(ts, "ipA", None, 500)
    \/ \E ts \in LeaderTs : UserTx(ts, "ipA", "sigS")
    \/ \E ts \in LeaderTs : Periodic(ts)

SpecLeader == InitLeader /\ [][NextLeader]_vars

Unknown == None
Leader == Some(TRUE)
NotLeader == Some(FALSE)

\* C27 as stated: a tick that finds the leader status unknown leaves it NotLeader, whether
\* or not outside_leader_slots is configured
C27_UnknownBecomesNotLeader ==
    [][ (last_op' = "periodic" /\ leader_status = Unknown) => leader_status' = NotLeader ]_vars

\* C27: a tick that finds the leader status unknown leaves it NotLeader when
\* outside_leader_slots is configured and Leader when it is not; no tick leaves it unknown
C27_UnknownIsSettled ==
    [][ last_op' = "periodic" =>
          /\ leader_status' # Unknown
          /\ leader_status = Unknown =>
                leader_status' = IF IsSome(config.outside_leader_slots) THEN NotLeader ELSE Leader
          /\ leader_status # Unknown => leader_status' = leader_status ]_vars

\* without outside_leader_slots, the first tick found the status unknown and made it Leader
C27_Witness ==
    /\ last_op = "periodic" /\ ~ panicked
    /\ config.outside_leader_slots = None
    /\ leader_status = Leader
    /\ \E i \in 1..Len(out) : out[i].op = "LEADER CLASSIFICATION"

\* the step changed no peer, stake, series, Tx or group
LeaderOnly ==
    /\ peers' = peers /\ stakes' = stakes /\ recent_values' = recent_values
    /\ current_tx' = current_tx /\ pubkey_groups' = pubkey_groups
    /\ classification_groups' = classification_groups
    /\ fed' = << >>

\* C28: with outside_leader_slots configured WillBeLeader makes the status NotLeader when
\* slots >= leader_slots and Leader otherwise, BeginLeader makes it Leader and EndLeader
\* NotLeader; without it all three make it Leader; none of them changes peers, stakes,
\* series, Tx ledger or groups
C28_LeaderTransitions ==
    [][ /\ \A slots \in SlotsAhead :
              (\E ts \in LeaderTs : WillBeLeader(ts, slots)) =>
                  /\ leader_status' =
                        IF IsSome(config.outside_leader_slots) /\ slots >= LeaderSlots
                        THEN NotLeader ELSE Leader
                  /\ LeaderOnly
        /\ (\E ts \in LeaderTs : BeginLeader(ts)) => (leader_status' = Leader /\ LeaderOnly)
        /\ (\E ts \in LeaderTs : EndLeader(ts)) =>
              /\ leader_status' = IF IsSome(config.outside_leader_slots) THEN NotLeader ELSE Leader
              /\ LeaderOnly
    ]_vars

\* with outside_leader_slots configured and a peer, a value and a Tx in the State,
\* WillBeLeader made the status NotLeader
C28_Witness ==
    /\ last_op = "will_be_leader"
    /\ IsSome(config.outside_leader_slots)
    /\ leader_status = NotLeader
    /\ \E i \in 1..Len(out) : out[i].op = "NOT LEADER CLASSIFICATION"
    /\ peers # EmptyMap /\ current_tx # EmptyMap
    /\ recent_values["failed_exceeded_quic_connections"] # EmptyMap

(***************************************************************************)
(* SpecPubkey: three known pubkeys, two of them mapped to the default      *)
(* group with different expirations and one to a group of its own; events  *)
(* with each of them, with an unknown pubkey (pkZ) and with none.          *)
(***************************************************************************)
PubkeyTs == {Base, Base + 5000, Base + 30000}
StartedPubkeys == {None, Some("pkK"), Some("pkL"), Some("pkM")}
ExceededPubkeys == {Some("pkZ"), Some("pkK"), Some("pkL")}

KnownPubkeys ==
    << [ pubkey |-> "pkK", group_name |-> None, group_expiration_seconds |-> Some(5) ],
       [ pubkey |-> "pkL", group_name |-> None, group_expiration_seconds |-> Some(20) ],
       [ pubkey |-> "pkM", group_name |-> Some("vip"), group_expiration_seconds |-> Some(5) ] >>

InitPubkey == InitState(MakeConfig(EmptyMap, None, None, KnownPubkeys))

NextPubkey ==
    \/ \E ts \in PubkeyTs, pk \in StartedPubkeys : Started(ts, "ipA", pk, 500)
    \/ \E ts \in PubkeyTs, pk \in ExceededPubkeys : Exceeded(ts, "ipB", pk, 1000)
    \/ \E ts \in PubkeyTs : Periodic(ts)

SpecPubkey == InitPubkey /\ [][NextPubkey]_vars

\* the configured entry of a pubkey, if any
KnownEntry(pk) == { KnownPubkeys[i] : i \in { j \in 1..Len(KnownPubkeys) : Some(KnownPubkeys[j].pubkey) = pk } }

\* membership and expiry as a set of << group, ip, expiry >>
PubkeyMembers(groups) ==
    UNION { { << g, ip, groups[g][ip] >> : ip \in DOMAIN groups[g] } : g \in DOMAIN groups }

\* the effect the claim gives an event of ip carrying pk
PubkeyEffect(ip, pk) ==
    IF KnownEntry(pk) = {}
    THEN PubkeyMembers(pubkey_groups') = PubkeyMembers(pubkey_groups)
    ELSE LET e == CHOOSE x \in KnownEntry(pk) : TRUE
             g == UnwrapOr(e.group_name, "known_pubkeys")
             wanted == most_recent_timestamp' + e.group_expiration_seconds[1] * 1000
             old == { m \in PubkeyMembers(pubkey_groups) : m[1] = g /\ m[2] = ip }
             expiry == IF \E m \in old : m[3] > wanted
                       THEN (CHOOSE m \in old : TRUE)[3] ELSE wanted
         IN /\ PubkeyMembers(pubkey_groups') =
                  (PubkeyMembers(pubkey_groups) \ old) \cup { << g, ip, expiry >> }
            /\ expiry >= wanted

\* C29: a Started or Exceeded event with a known pubkey leaves its ip in the mapped group
\* with expiry effective ts + group_expiration_seconds * 1000, or the stored expiry when
\* that is higher; with no pubkey or an unknown one no membership changes; a tick removes
\* a member of a pubkey group exactly when its expiry < now and keeps the others as they are
C29_PubkeyGroups ==
    [][ /\ last_op' = "started" =>
              \A pk \in StartedPubkeys :
                  Started(most_recent_timestamp', "ipA", pk, 500) => PubkeyEffect("ipA", pk)
        /\ last_op' = "exceeded" =>
              \A pk \in ExceededPubkeys :
                  Exceeded(most_recent_timestamp', "ipB", pk, 1000) => PubkeyEffect("ipB", pk)
        /\ last_op' = "periodic" =>
              PubkeyMembers(pubkey_groups') =
                  { m \in PubkeyMembers(pubkey_groups) : ~ (m[3] < most_recent_timestamp') }
    ]_vars

\* an event with pkL raised the expiry that ipA had in known_pubkeys to 20 s after the event
C29_Witness ==
    /\ last_op = "started"
    /\ most_recent_timestamp = Base + 5000
    /\ << "known_pubkeys", "ipA", Base + 25000 >> \in PubkeyMembers(pubkey_groups)
    /\ Len(out) = 1 /\ out[1].op = "Update" /\ out[1].src = "pubkey"
    /\ out[1].ip = "ipA" /\ out[1].group = "known_pubkeys" /\ out[1].expiration = Base + 25000

\* ipA holds the expiry of pkL (20 s after Base) after a later event that raised nothing,
\* and is also in the group of pkM
C29_HigherKept ==
    /\ last_op = "started"
    /\ most_recent_timestamp = Base + 5000
    /\ << "known_pubkeys", "ipA", Base + 20000 >> \in PubkeyMembers(pubkey_groups)
    /\ << "vip", "ipA", Base + 5000 >> \in PubkeyMembers(pubkey_groups)
    /\ out = << >>

\* a tick at the very expiry of a member kept it
C29_TickKept ==
    /\ last_op = "periodic"
    /\ << "known_pubkeys", "ipB", most_recent_timestamp >> \in PubkeyMembers(pubkey_groups)

(***************************************************************************)
(* Stakes and peers (SpecCreate).                                          *)
(***************************************************************************)
\* C30: the ips with a stake entry are the ips with a Peer record; the stake map changes
\* only by a Started or Exceeded event, which leaves the ip of the event with a Peer and
\* a stake, and by a tick, which drops the stakes of the peers it reaps and no other
C30_StakesFollowPeers ==
    /\ [](DOMAIN stakes = DOMAIN peers)
    /\ [][ stakes' # stakes =>
              \/ /\ last_op' \in {"started", "exceeded"}
                 /\ DOMAIN stakes \subseteq DOMAIN stakes'
                 /\ DOMAIN peers' = DOMAIN stakes'
              \/ /\ last_op' = "periodic"
                 /\ reaped' # {}
                 /\ stakes' = [ ip \in DOMAIN stakes \ reaped' |-> stakes[ip] ]
                 /\ DOMAIN peers' = DOMAIN peers \ reaped' ]_vars

\* a tick reaped ipA with its stake and kept ipB, seen three days later, with its stake
C30_Witness ==
    /\ last_op = "periodic" /\ ~ panicked
    /\ reaped = {"ipA"}
    /\ DOMAIN peers = {"ipB"}
    /\ DOMAIN stakes = {"ipB"} /\ stakes["ipB"] = 1000

(***************************************************************************)
(* SpecEarly: events and ticks at effective times below the retention      *)
(* lengths (threshold window 6000 ms, Tx retention 120000 ms, peer         *)
(* retention three days), in both build profiles.                          *)
(***************************************************************************)
EarlyTs == {1000, 5000, 130000}

InitEarly == InitState(GroupConfig)

NextEarly ==
    \/ \E ts \in EarlyTs : Failed(ts, "ipA")
    \/ \E ts \in EarlyTs : Started(ts, "ipA", None, 500)
    \/ \E ts \in EarlyTs : UserTx(ts, "ipB", "sigS")
    \/ \E ts \in EarlyTs : Periodic(ts)

SpecEarly == InitEarly /\ [][NextEarly]_vars

\* C31: a tick at an effective time below a retention length does not fault and evicts
\* nothing that the length governs: below 120000 ms no Tx, below three days no Peer, below
\* a Classification's max_duration_ms none of its series values
C31_CutoffIsZero ==
    [][ last_op' = "periodic" =>
          LET now == most_recent_timestamp'
          IN /\ ~ panicked'
             /\ now < TX_RETENTION_DURATION_MS => current_tx' = current_tx
             /\ now < PEER_RETENTION_DURATION_MS =>
                   (peers' = peers /\ stakes' = stakes /\ reaped' = {})
             /\ \A name \in ClsSet :
                   (IsSome(config.cls[name]) /\ now < config.cls[name][1].max_duration_ms) =>
                       \A ip \in DOMAIN recent_values[name] :
                           /\ ip \in DOMAIN recent_values'[name]
                           /\ recent_values'[name][ip] = recent_values[name][ip]
    ]_vars

\* what holds instead: below the Tx retention length a tick faults in a build with overflow
\* checks, and otherwise evicts every Tx, Peer and series value and evaluates no threshold
C31_EarlyTickOutcome ==
    [][ (last_op' = "periodic" /\ most_recent_timestamp' < TX_RETENTION_DURATION_MS) =>
          IF overflow_checks THEN panicked'
          ELSE /\ ~ panicked'
               /\ current_tx' = EmptyMap /\ peers' = EmptyMap /\ stakes' = EmptyMap
               /\ reaped' = DOMAIN peers
               /\ recent_values'["failed_exceeded_quic_connections"] = EmptyMap
               /\ evaluated' = << >>
    ]_vars

\* without overflow checks, a tick at 5000 ms removed the peer seen at 1000 ms
C31_Witness ==
    /\ last_op = "periodic" /\ ~ overflow_checks /\ ~ panicked
    /\ most_recent_timestamp = 5000
    /\ reaped = {"ipA"}

(***************************************************************************)
(* SpecShort: a fee Classification whose windows are not longer than the   *)
(* Tx retention: sums over 120000 ms and over 100000 ms.                   *)
(***************************************************************************)
ShortTs == {Base, Base + 100000, Base + 130000, Base + 250000}

ShortConfig ==
    MakeConfig(
        [ fee_lamports_submitted |->
            Cls(None, Some(1), Some(TRUE),
                << Thr(Some("paying"), None, None, None, None,
                       "sum", "greater_than", 100, 120000, None),
                   Thr(Some("free"), None, None, None, None,
                       "sum", "less_than", 1, 100000, None) >>) ],
        None, None, << >>)

InitShort == InitState(ShortConfig)

NextShort ==
    \/ \E ts \in ShortTs, ip \in IPs : UserTx(ts, ip, "sigS")
    \/ \E ts \in ShortTs : FeeEv(ts, "sigS", 1000, 800, 5000)
    \/ \E ts \in ShortTs : Periodic(ts)

SpecShort == InitShort /\ [][NextShort]_vars

\* C32 as stated: every value the drain feeds is older than now - 120000, so a tick leaves
\* no series in a fee Classification with max_duration_ms <= 120000, evaluates none of its
\* thresholds and adds no ip to a group
C32_ShortWindowNeverEvaluated ==
    [][ (last_op' = "periodic" /\ ~ panicked') =>
          /\ \A k \in 1..Len(fed') :
                fed'[k].timestamp < most_recent_timestamp' - TX_RETENTION_DURATION_MS
          /\ recent_values'["fee_lamports_submitted"] = EmptyMap
          /\ evaluated' = << >>
          /\ \A i \in 1..Len(out') : out'[i].op \notin {"Add", "Update"}
    ]_vars

\* C32: the value of a first submission is older than now - 120000 when the drain feeds
\* it and only a first submission gets a non-zero value; so in a fee Classification with
\* max_duration_ms <= 120000 every value inside the window of an evaluated threshold is 0
C32_ShortWindowSeesZeros ==
    [][ (last_op' = "periodic" /\ ~ panicked') =>
          /\ \A k \in 1..Len(fed') :
                /\ fed'[k].index = 1 =>
                      fed'[k].timestamp < most_recent_timestamp' - TX_RETENTION_DURATION_MS
                /\ fed'[k].value # 0 => fed'[k].index = 1
          /\ \A k \in 1..Len(evaluated') :
                LET e == evaluated'[k]
                IN \A i \in InWindow(e.series, e.now - e.threshold.duration_ms) :
                       e.series[i].value = 0
    ]_vars

\* a tick evicted a Tx landed with fee 5000, swept the value of its first submitter ipA,
\* evaluated the thresholds for the later submitter ipB and put it in the group of the
\* less-than threshold
C32_Witness ==
    /\ last_op = "periodic" /\ ~ panicked
    /\ \E k \in 1..Len(fed) : fed[k].ip = "ipA" /\ fed[k].index = 1 /\ fed[k].value = 5000
    /\ "ipA" \notin DOMAIN recent_values["fee_lamports_submitted"]
    /\ \E k \in 1..Len(evaluated) : evaluated[k].ip = "ipB" /\ evaluated[k].matched
    /\ \E i \in 1..Len(out) : out[i].op = "Add" /\ out[i].ip = "ipB" /\ out[i].group = "free"

(***************************************************************************)
(* SpecSubmit: connections of two peers, the submissions of one of them,   *)
(* its Finished events and the reaping of the peer table, with the useless *)
(* connection Classification configured.                                   *)
(***************************************************************************)
SubmitTs == {Base, Base + 2000, Base + PEER_RETENTION_DURATION_MS + 5000,
             Base + PEER_RETENTION_DURATION_MS + 7000}

InitSubmit == InitState(PeerConfig(TRUE, None))

NextSubmit ==
    \/ \E ts \in SubmitTs, ip \in IPs : Started(ts, ip, None, 500)
    \/ \E ts \in SubmitTs : Finished(ts, "ipA")
    \/ \E ts \in SubmitTs : VoteTx(ts, "ipA")
    \/ \E ts \in SubmitTs : UserTx(ts, "ipA", "sigS")
    \/ \E ts \in SubmitTs : Periodic(ts)

SpecSubmit == InitSubmit /\ [][NextSubmit]_vars

\* C33: while a Peer record exists its tx_submitted never decreases; a VoteTx or UserTx
\* for a known ip leaves it above 0; and a Finished feeds useless_quic_connections only
\* for an ip whose tx_submitted is 0, so that after a submission no Finished of that ip,
\* of whatever connection, feeds a value before the Peer is reaped and created again
C33_SubmittedIsKept ==
    /\ [][ \A ip \in DOMAIN peers \cap DOMAIN peers' :
              peers'[ip].tx_submitted >= peers[ip].tx_submitted ]_vars
    /\ [][ \A t \in SubmitTs, ip \in DOMAIN peers :
              (\/ last_op' = "votetx" /\ VoteTx(t, ip)
               \/ last_op' = "usertx" /\ UserTx(t, ip, "sigS"))
              => (ip \in DOMAIN peers' /\ peers'[ip].tx_submitted > 0) ]_vars
    /\ [][ last_op' = "finished" =>
              \A k \in 1..Len(fed') :
                  /\ fed'[k].ip \in DOMAIN peers
                  /\ peers[fed'[k].ip].tx_submitted = 0 ]_vars
    /\ [][ last_op' # "periodic" => DOMAIN peers \subseteq DOMAIN peers' ]_vars

\* ipA connected, submitted, connected again 2000 ms later, and the Finished of that
\* connection fed nothing although the peer is old enough
C33_Witness ==
    /\ last_op = "finished"
    /\ "ipA" \in DOMAIN peers
    /\ peers["ipA"].tx_submitted > 0
    /\ peers["ipA"].most_recent_timestamp - peers["ipA"].first_timestamp >= 2000
    /\ fed = << >>

\* the Finished of a Peer of ipA created after the retention, which submitted nothing,
\* fed a value
C33_Recreated ==
    /\ last_op = "finished"
    /\ "ipA" \in DOMAIN peers
    /\ peers["ipA"].first_timestamp > Base + PEER_RETENTION_DURATION_MS
    /\ Len(fed) = 1 /\ fed[1].ip = "ipA"

(***************************************************************************)
(* SpecRun: a signature submitted again after its Tx left the ledger.      *)
(* earliest_submitter keeps, per signature, the ip of the earliest UserTx  *)
(* of the run (.run) and the ip of the earliest UserTx received since the  *)
(* signature was last absent from the ledger (.record, None while absent). *)
(***************************************************************************)
RunTs == {Base, Base + 130000, Base + 260000}

UserTxLogged(ts, ip, sig) ==
    /\ Apply(usertx(Cur, ts, ip, sig), "usertx")
    /\ NoRun
    /\ earliest_submitter' =
          IF sig \notin DOMAIN earliest_submitter
          THEN Put(earliest_submitter, sig, [ run |-> ip, record |-> Some(ip) ])
          ELSE IF earliest_submitter[sig].record = None
          THEN [ earliest_submitter EXCEPT ![sig].record = Some(ip) ]
          ELSE earliest_submitter
    /\ UNCHANGED main_vars /\ UNCHANGED fee_log

PeriodicRun(now_in) ==
    /\ \E order \in Perms(old_tx(Cur, get_timestamp(Cur, now_in).most_recent_timestamp)) :
          Apply(periodic(Cur, now_in, order), "periodic")
    /\ NoRun
    /\ earliest_submitter' =
          [ sig \in DOMAIN earliest_submitter |->
              IF sig \in DOMAIN current_tx' THEN earliest_submitter[sig]
              ELSE [ earliest_submitter[sig] EXCEPT !.record = None ] ]
    /\ UNCHANGED main_vars /\ UNCHANGED fee_log

InitRun == InitState(FeeSubsetConfig({"fee_lamports_submitted"}))

NextRun ==
    \/ \E ts \in RunTs, ip \in IPs : UserTxLogged(ts, ip, "sigS")
    \/ \E ts \in RunTs : FeeEv(ts, "sigS", 1000, 800, 5000)
    \/ \E ts \in RunTs : PeriodicRun(ts)

SpecRun == InitRun /\ [][NextRun]_vars

\* C34 as stated: over the whole run a non-zero fee value of a signature is fed only for
\* the ip of the earliest UserTx ever received for that signature
C34_EarliestOfRun ==
    [][ (last_op' = "periodic" /\ ~ panicked') =>
          \A k \in 1..Len(fed') :
              fed'[k].value # 0 => fed'[k].ip = earliest_submitter[fed'[k].sig].run
    ]_vars

\* C34: a non-zero fee value of a signature is fed only for the ip of the earliest UserTx
\* received for it since the signature was last absent from the ledger: the first
\* submitter of the Tx that the tick evicts
C34_EarliestOfRecord ==
    /\ [](\A sig \in DOMAIN current_tx :
             /\ sig \in DOMAIN earliest_submitter
             /\ earliest_submitter[sig].record =
                    Some(current_tx[sig].submissions[1].submitter))
    /\ [][ (last_op' = "periodic" /\ ~ panicked') =>
              \A k \in 1..Len(fed') :
                  fed'[k].value # 0 =>
                      earliest_submitter[fed'[k].sig].record = Some(fed'[k].ip)
       ]_vars

\* sigS was first submitted by ipA and evicted; ipB then submitted it again, a Fee landed
\* it, and the tick that evicted it fed 5000 for ipB
C34_Witness ==
    /\ last_op = "periodic" /\ ~ panicked
    /\ "sigS" \in DOMAIN earliest_submitter
    /\ earliest_submitter["sigS"].run = "ipA"
    /\ \E k \in 1..Len(fed) :
          fed[k].sig = "sigS" /\ fed[k].ip = "ipB" /\ fed[k].index = 1 /\ fed[k].value = 5000

(***************************************************************************)
(* SpecShared: a known pubkey and a Threshold that name the same group.    *)
(***************************************************************************)
SharedConfig ==
    MakeConfig(
        [ failed_exceeded_quic_connections |->
            Cls(None, Some(15), None,
                << Thr(Some("watch"), None, None, None, None,
                       "sum", "greater_than_or_equal_to", 1, 6000, None) >>) ],
        None, None,
        << [ pubkey |-> "pkK", group_name |-> Some("watch"),
             group_expiration_seconds |-> Some(5) ] >>)

InitShared == InitState(SharedConfig)

NextShared ==
    \/ \E ts \in SpecTs, ip \in IPs : Failed(ts, ip)
    \/ \E ts \in SpecTs, pk \in {None, Some("pkK")} : Started(ts, "ipA", pk, 500)
    \/ \E ts \in SpecTs : Periodic(ts)

SpecShared == InitShared /\ [][NextShared]_vars

\* the lines of o about (ip, group), in order, printed by a source in srcs
PairLines(o, srcs, ip, group) ==
    FilterSeq(o, { l \in { o[i] : i \in 1..Len(o) } :
                     /\ l.op \in {"Add", "Update", "Remove"} /\ l.src \in srcs
                     /\ l.ip = ip /\ l.group = group })

\* the lines alternate from `declared`: Add only when not declared a member, Update and
\* Remove only when declared
RECURSIVE Alternates(_, _)
Alternates(lines, declared) ==
    IF lines = << >> THEN TRUE
    ELSE /\ (Head(lines).op = "Add") = ~ declared
         /\ Alternates(Tail(lines), Head(lines).op # "Remove")

GroupNames == DOMAIN pubkey_groups \cup DOMAIN classification_groups

\* the pair is in a registry of one of srcs
In(srcs, ip, group) ==
    \/ "pubkey" \in srcs /\ group \in DOMAIN pubkey_groups /\ ip \in DOMAIN pubkey_groups[group]
    \/ /\ "group" \in srcs /\ group \in DOMAIN classification_groups
       /\ ip \in DOMAIN classification_groups[group]

\* C35 as stated: per (ip, group name), whichever registry prints them, an Add is printed
\* only when the pair is not declared a member, an Update or a Remove only when it is,
\* also when a known pubkey and a Threshold share the group name
C35_OutputsAlternate ==
    [][ \A ip \in IPs, g \in GroupNames \cup GroupNames' :
          Alternates(PairLines(out', {"pubkey", "group"}, ip, g),
                     In({"pubkey", "group"}, ip, g)) ]_vars

\* within each of the two registries the outputs of a pair alternate
C35_AlternatePerRegistry ==
    [][ \A ip \in IPs, g \in GroupNames \cup GroupNames', src \in {"pubkey", "group"} :
          Alternates(PairLines(out', {src}, ip, g), In({src}, ip, g)) ]_vars

\* ipA is in the group watch of the Threshold and a Started with pkK printed a second Add
\* for (ipA, watch)
C35_Witness ==
    /\ last_op = "started"
    /\ "watch" \in DOMAIN classification_groups
    /\ "ipA" \in DOMAIN classification_groups["watch"]
    /\ \E i \in 1..Len(out) : out[i].op = "Add" /\ out[i].ip = "ipA" /\ out[i].group = "watch"

====
